---- MODULE Spec2Model ----
(***************************************************************************)
(* Job control of the video analysis service: the persisted status string  *)
(* (app/crud.py), the chunk planner (app/services/video_chunk_service.py), *)
(* the single-video run process_single_video with its scene retrieval and  *)
(* translation (app/services/moviemanager_service.py), the embedding blob  *)
(* (app/services/scene_service.py) and the HTTP boundary                   *)
(* (app/routers/moviemanager.py).                                          *)
(*                                                                         *)
(* A status string is a sequence of one-character strings, so that         *)
(* formatting and parsing are computed and not assumed.                    *)
(***************************************************************************)
EXTENDS Integers, Sequences, FiniteSets, TLC

\* ------------------------------------------------------------------ bounds
MaxRuns == 2          \* runs of one job in a behaviour
MaxUnits == 5         \* the video lasts 0..MaxUnits duration steps
DurationStep == 300   \* seconds per duration step
MaxCount == 11        \* largest current/total given to the status codec
MaxChunksIn == 3      \* largest chunk count given to the resume planner
MaxD == 12            \* largest total duration given to the chunk planner
MaxL == 11            \* largest segment length given to the chunk planner
MaxPrompts == 2       \* most custom prompts stored for the job
MaxParts == 3         \* most parts in a final-synthesis response of a run
MaxIndex == 6         \* largest chunk index given to the context renderer
MaxStored == 12       \* most stored prompts given to final synthesis
MaxResponseParts == 12 \* most response parts given to final synthesis

\* --------------------------------------------------------- program values
SegmentDefault == 600 \* generate_video_chunks_info(segment_duration = 600)

\* ------------------------------------------------------------ str helpers
DigitChars == <<"0", "1", "2", "3", "4", "5", "6", "7", "8", "9">>

IsDigit(ch) == \E d \in 1..10 : DigitChars[d] = ch

DigitValue(ch) == (CHOOSE d \in 1..10 : DigitChars[d] = ch) - 1

\* f"{n}" for a non-negative int
RECURSIVE FormatInt(_)
FormatInt(n) ==
    IF n < 10 THEN <<DigitChars[n + 1]>>
    ELSE FormatInt(n \div 10) \o <<DigitChars[(n % 10) + 1]>>

\* int(s) for a string of digits
RECURSIVE ParseInt(_)
ParseInt(s) ==
    IF s = <<>> THEN 0
    ELSE 10 * ParseInt(SubSeq(s, 1, Len(s) - 1)) + DigitValue(s[Len(s)])

\* s.startswith(p)
startswith(s, p) == Len(s) >= Len(p) /\ SubSeq(s, 1, Len(p)) = p

\* s.replace(p, "")
RECURSIVE replace_empty(_, _)
replace_empty(s, p) ==
    IF Len(s) < Len(p) THEN s
    ELSE IF startswith(s, p) THEN replace_empty(SubSeq(s, Len(p) + 1, Len(s)), p)
    ELSE <<Head(s)>> \o replace_empty(Tail(s), p)

\* the longest prefix of s made of digits: what \d+ consumes
RECURSIVE DigitRun(_)
DigitRun(s) ==
    IF s # <<>> /\ IsDigit(Head(s)) THEN <<Head(s)>> \o DigitRun(Tail(s))
    ELSE <<>>

\* ---------------------------------------------------------- status values
FAILED_ == <<"F", "A", "I", "L", "E", "D", "_">>
PENDING == <<"P", "E", "N", "D", "I", "N", "G">>
ORGANIZING == <<"O", "R", "G", "A", "N", "I", "Z", "I", "N", "G">>
COMPLETE == <<"C", "O", "M", "P", "L", "E", "T", "E">>
PROCEEDING_OPEN == <<"P", "R", "O", "C", "E", "E", "D", "I", "N", "G", "[">>

ProceedingStuck(current, total) ==
    PROCEEDING_OPEN \o FormatInt(0) \o <<"/">> \o FormatInt(total) \o <<"]">>

\* f"PROCEEDING[{current}/{total}]"
ProceedingStatus(current, total) ==
    PROCEEDING_OPEN \o FormatInt(current) \o <<"/">> \o FormatInt(total) \o <<"]">>

\* Python's None
None == [stage |-> "None"]

\* re.match(r"PROCEEDING\[(\d+)/(\d+)\]", status): the two groups, or None
ReMatchProceeding(status) ==
    IF ~startswith(status, PROCEEDING_OPEN) THEN None
    ELSE LET r1 == SubSeq(status, Len(PROCEEDING_OPEN) + 1, Len(status))
             g1 == DigitRun(r1)
             r2 == SubSeq(r1, Len(g1) + 1, Len(r1))
             r3 == IF r2 = <<>> THEN <<>> ELSE Tail(r2)
             g2 == DigitRun(r3)
             r4 == SubSeq(r3, Len(g2) + 1, Len(r3))
         IN IF /\ g1 # <<>>
               /\ r2 # <<>> /\ Head(r2) = "/"
               /\ g2 # <<>>
               /\ r4 # <<>> /\ Head(r4) = "]"
            THEN [stage |-> "match", group1 |-> g1, group2 |-> g2]
            ELSE None

ResumeNoStrip(st) ==
    IF st = PENDING THEN [stage |-> "pending", current |-> 0, total |-> 0]
    ELSE IF startswith(st, PROCEEDING_OPEN) THEN
        LET match == ReMatchProceeding(st)
        IN IF match.stage # "None"
           THEN [stage |-> "proceeding",
                 current |-> ParseInt(match.group1),
                 total |-> ParseInt(match.group2)]
           ELSE None
    ELSE IF st = ORGANIZING THEN [stage |-> "organizing"]
    ELSE IF st = COMPLETE THEN [stage |-> "complete"]
    ELSE None

\* crud.get_resume_info for an existing movie row whose status is st
get_resume_info(st) ==
    LET status == IF startswith(st, FAILED_) THEN replace_empty(st, FAILED_) ELSE st
    IN IF status = PENDING THEN [stage |-> "pending", current |-> 0, total |-> 0]
       ELSE IF startswith(status, PROCEEDING_OPEN) THEN
           LET match == ReMatchProceeding(status)
           IN IF match.stage # "None"
              THEN [stage |-> "proceeding",
                    current |-> ParseInt(match.group1),
                    total |-> ParseInt(match.group2)]
              ELSE None
       ELSE IF status = ORGANIZING THEN [stage |-> "organizing"]
       ELSE IF status = COMPLETE THEN [stage |-> "complete"]
       ELSE None

MarkFailedAlways(st) == FAILED_ \o st

\* crud.mark_movie_failed: the status it leaves in the movie row
mark_movie_failed(st) ==
    IF ~startswith(st, FAILED_) THEN FAILED_ \o st ELSE st

\* ----------------------------------------------------------- chunk planner
Min(a, b) == IF a < b THEN a ELSE b

\* the while loop of generate_video_chunks_info
RECURSIVE PlanLoop(_, _, _, _)
PlanLoop(start_time, chunk_order, total_duration, segment_duration) ==
    IF start_time < total_duration
    THEN LET chunk_duration == Min(segment_duration, total_duration - start_time)
         IN <<[start |-> start_time,
               duration |-> chunk_duration,
               order |-> chunk_order,
               end |-> start_time + chunk_duration]>>
            \o PlanLoop(start_time + chunk_duration, chunk_order + 1,
                        total_duration, segment_duration)
    ELSE <<>>

PlanFixedLength(total_duration, segment_duration) ==
    LET chunks == PlanLoop(0, 1, total_duration, segment_duration)
    IN [k \in 1..Len(chunks) |->
          [chunks[k] EXCEPT !.duration = segment_duration,
                            !.end = chunks[k].start + segment_duration]]

PlanWholeSegments(total_duration, segment_duration) ==
    SelectSeq(PlanLoop(0, 1, total_duration, segment_duration),
              LAMBDA chunk : chunk.duration = segment_duration)

\* video_chunk_service.generate_video_chunks_info, total_duration being the
\* value get_video_duration_from_s3 returned
generate_video_chunks_info(total_duration, segment_duration) ==
    PlanLoop(0, 1, total_duration, segment_duration)

\* ---------------------------------------------------------- rolling context
ContextWindow == 3    \* previous_summaries[-3:]

Max(a, b) == IF a > b THEN a ELSE b

\* context = "": the prompt gets no context fragment
NoContext == [header |-> FALSE, entries |-> <<>>]

RollingContextFromZero(previous_summaries, current_video_index) ==
    IF previous_summaries # <<>>
    THEN LET n == Len(previous_summaries)
             recent_summaries == SubSeq(previous_summaries, Max(1, n - ContextWindow + 1), n)
         IN [header |-> TRUE,
             entries |-> [k \in 1..Len(recent_summaries) |->
                            [label |-> (k - 1) + 1, summary |-> recent_summaries[k]]]]
    ELSE NoContext

RollingContextAlwaysHeader(previous_summaries, current_video_index) ==
    LET n == Len(previous_summaries)
        recent_summaries == SubSeq(previous_summaries, Max(1, n - ContextWindow + 1), n)
        start_index == Max(0, current_video_index - Len(recent_summaries))
    IN [header |-> TRUE,
        entries |-> [k \in 1..Len(recent_summaries) |->
                       [label |-> start_index + (k - 1) + 1, summary |-> recent_summaries[k]]]]

\* the context fragment of create_claude_prompt_with_context (lines 193-205,
\* with_cw left at True): the header and one labelled entry per summary
RollingContext(previous_summaries, current_video_index) ==
    IF previous_summaries # <<>>
    THEN LET n == Len(previous_summaries)
             recent_summaries == SubSeq(previous_summaries, Max(1, n - ContextWindow + 1), n)
             start_index == Max(0, current_video_index - Len(recent_summaries))
         IN [header |-> TRUE,
             entries |-> [k \in 1..Len(recent_summaries) |->
                            [label |-> start_index + (k - 1) + 1,
                             summary |-> recent_summaries[k]]]]
    ELSE NoContext

\* ---------------------------------------------------------- final synthesis
PromptCap == 10       \* custom_prompts[:10]

\* the delimiter of the final-synthesis response, one token of the text
Delimiter == "#######"

\* final_summary_text.split("#######"), the text being a sequence of tokens
RECURSIVE split(_)
split(text) ==
    IF \E k \in 1..Len(text) : text[k] = Delimiter
    THEN LET k == CHOOSE j \in 1..Len(text) :
                      text[j] = Delimiter /\ \A h \in 1..(j - 1) : text[h] # Delimiter
         IN <<SubSeq(text, 1, k - 1)>> \o split(SubSeq(text, k + 1, Len(text)))
    ELSE <<text>>

ParseAnyLength(final_summary_text, expected_len) ==
    [stage |-> "list", parts |-> split(final_summary_text)]

\* parse_final_summary: the parts, or None when the count is not the expected
\* one (the ValueError is caught inside and nothing is returned)
parse_final_summary(final_summary_text, expected_len) ==
    LET parts == split(final_summary_text)
    IN IF Len(parts) # expected_len THEN None
       ELSE [stage |-> "list", parts |-> parts]

\* custom_prompts[:10] of lines 988-990
TruncatePrompts(custom_prompts) ==
    IF Len(custom_prompts) > PromptCap THEN SubSeq(custom_prompts, 1, PromptCap)
    ELSE custom_prompts

PairWithLast(custom_prompts, final_response) ==
    LET parsed_response_list == parse_final_summary(final_response, Len(custom_prompts))
    IN IF parsed_response_list.stage = "None"
       THEN [raised |-> TRUE, requests |-> 1, final_responses |-> <<>>]
       ELSE LET parts == parsed_response_list.parts
            IN [raised |-> FALSE, requests |-> 1,
                final_responses |->
                    [k \in 1..Min(Len(custom_prompts), Len(parts)) |->
                        <<custom_prompts[k], parts[Len(parts) - k + 1]>>]]

\* create_final_results for the response text the model gave: one request,
\* then zip(custom_prompts, parsed_response_list), which raises on None
create_final_results(custom_prompts, final_response) ==
    LET parsed_response_list == parse_final_summary(final_response, Len(custom_prompts))
    IN IF parsed_response_list.stage = "None"
       THEN [raised |-> TRUE, requests |-> 1, final_responses |-> <<>>]
       ELSE LET parts == parsed_response_list.parts
            IN [raised |-> FALSE, requests |-> 1,
                final_responses |->
                    [k \in 1..Min(Len(custom_prompts), Len(parts)) |->
                        <<custom_prompts[k], parts[k]>>]]

SkipOnEitherEmpty(utterances, scene_images) == utterances = <<>> \/ scene_images = <<>>

\* the skip test of line 928: not utterances and not scene_images
IsEmptyChunk(utterances, scene_images) == utterances = <<>> /\ scene_images = <<>>

CleanupKeepsFile(files, file, deleted) == files

\* video_chunk_service.cleanup_chunk_file: deleted is FALSE when os.unlink
\* raised, which is caught and logged
cleanup_chunk_file(files, file, deleted) ==
    IF deleted THEN files \ {file} ELSE files

\* ---------------------------------------------------------- scene retrieval
TopCount == 3         \* get_final_scenes keeps 3 scenes per query

\* f"chunk_{chunk}_scene_{scene}": the token a nomination is recorded under
SceneToken(chunk, scene) ==
    <<"c", "h", "u", "n", "k", "_">> \o FormatInt(chunk)
        \o <<"_", "s", "c", "e", "n", "e", "_">> \o FormatInt(scene)

\* save_thumbnail_to_s3: the reference of a scene thumbnail, the key of its
\* embedding; bucket and directory are the same for every scene of a job
ThumbnailUrl(chunk, scene) ==
    <<"s", "3", "/">> \o SceneToken(chunk, scene) \o <<".", "j", "p", "g">>

\* scene_str in uri
Contains(uri, scene_str) ==
    \E k \in 0..(Len(uri) - Len(scene_str)) :
        SubSeq(uri, k + 1, k + Len(scene_str)) = scene_str

SeqRange(s) == {s[k] : k \in 1..Len(s)}

AdjustSameIndex(current_chunk, indices) ==
    [k \in 1..Len(indices) |-> SceneToken(current_chunk, indices[k])]

\* line 944: the scene indices of one query as tokens of the chunk
AdjustSelections(current_chunk, indices) ==
    [k \in 1..Len(indices) |-> SceneToken(current_chunk, indices[k] + 1)]

\* lines 941-946: the model's scene selection for the job's retrieval query,
\* as tokens of the chunk: the model names the first scene of the chunk
SceneSelections(current_chunk) == AdjustSelections(current_chunk, <<0>>)

\* lines 536-542: the tokens nominated for the query in the entries of
\* video_summaries that carry a scene selection
RECURSIVE CollectSelections(_)
CollectSelections(video_summaries) ==
    IF video_summaries = <<>> THEN <<>>
    ELSE LET vs == Head(video_summaries)
             chunk_selected == IF "scene_selections" \in DOMAIN vs
                               THEN vs.scene_selections ELSE <<>>
         IN  chunk_selected \o CollectSelections(Tail(video_summaries))

\* the keys of the embedding blob, in the order of the stored object
UriList(blob) == [k \in 1..Len(blob) |-> blob[k].uri]

\* the similarity of a stored scene to the query embedding
Similarity(blob, uri) ==
    blob[CHOOSE k \in 1..Len(blob) : blob[k].uri = uri].similarity

\* every token goes to the first key that contains it; a token no key
\* contains is dropped
RECURSIVE ResolveSelected(_, _)
ResolveSelected(uri_list, selected_scene_strings) ==
    IF selected_scene_strings = <<>> THEN <<>>
    ELSE LET scene_str == Head(selected_scene_strings)
             matched_uris == SelectSeq(uri_list, LAMBDA uri : Contains(uri, scene_str))
             rest == ResolveSelected(uri_list, Tail(selected_scene_strings))
         IN  IF matched_uris # <<>> THEN <<matched_uris[1]>> \o rest ELSE rest

DropAt(s, k) == SubSeq(s, 1, k - 1) \o SubSeq(s, k + 1, Len(s))

\* [uris[idx] for idx in np.argsort(-similarities)[:top_k]]
RECURSIVE TopBySimilarity(_, _, _)
TopBySimilarity(blob, uris, top_k) ==
    IF top_k = 0 \/ uris = <<>> THEN <<>>
    ELSE LET best == CHOOSE k \in 1..Len(uris) :
                        \A j \in 1..Len(uris) :
                            Similarity(blob, uris[j]) <= Similarity(blob, uris[k])
         IN  <<uris[best]>> \o TopBySimilarity(blob, DropAt(uris, best), top_k - 1)

SelectScenesFromAll(blob, selected_scene_strings) ==
    TopBySimilarity(blob, UriList(blob), Min(TopCount, Len(blob)))

\* the scenes of one query: the resolved nominations and the selected list
SelectScenes(blob, selected_scene_strings) ==
    LET uri_list == UriList(blob)
        selected_uris_from_llm == ResolveSelected(uri_list, selected_scene_strings)
    IN  IF Len(selected_uris_from_llm) < TopCount
        THEN LET needed_count == TopCount - Len(selected_uris_from_llm)
                 remaining_uris ==
                     SelectSeq(uri_list,
                               LAMBDA uri : uri \notin SeqRange(selected_uris_from_llm))
                 top_k == Min(needed_count, Len(remaining_uris))
             IN  selected_uris_from_llm
                     \o TopBySimilarity(blob, remaining_uris, top_k)
        ELSE TopBySimilarity(blob, selected_uris_from_llm,
                             Min(TopCount, Len(selected_uris_from_llm)))

\* -------------------------------------------------------------- translation
\* the delimiter of the translation response, one token of the text
TranslationDelimiter == "###"

Blank == " "

\* translated_text.split("###"), the text being a sequence of tokens
RECURSIVE split_translation(_)
split_translation(text) ==
    IF \E k \in 1..Len(text) : text[k] = TranslationDelimiter
    THEN LET k == CHOOSE j \in 1..Len(text) :
                      /\ text[j] = TranslationDelimiter
                      /\ \A h \in 1..(j - 1) : text[h] # TranslationDelimiter
         IN <<SubSeq(text, 1, k - 1)>> \o split_translation(SubSeq(text, k + 1, Len(text)))
    ELSE <<text>>

\* part.strip()
RECURSIVE strip(_)
strip(part) ==
    IF part = <<>> THEN part
    ELSE IF Head(part) = Blank THEN strip(Tail(part))
    ELSE IF part[Len(part)] = Blank THEN strip(SubSeq(part, 1, Len(part) - 1))
    ELSE part

\* translate_with_claude, lines 285-295: the parts of the response, stripped,
\* the empty ones dropped; when their number is not that of the input the
\* ValueError is caught in place and the input texts are returned
translate_with_claude(text_list, translated_text) ==
    LET stripped == [k \in 1..Len(split_translation(translated_text)) |->
                        strip(split_translation(translated_text)[k])]
        translated_list == SelectSeq(stripped, LAMBDA part : part # <<>>)
    IN  IF Len(translated_list) # Len(text_list)
        THEN [raised |-> FALSE, returned |-> text_list]
        ELSE [raised |-> FALSE, returned |-> translated_list]

\* ------------------------------------------------------------ HTTP boundary
S3Scheme == <<"s", "3", ":", "/", "/">>

\* an optional string is <<>> for None and <<text>> for a text; bool(x)
Truthy(optional) == optional # <<>> /\ optional[1] # <<>>

\* moviemanager_endpoint: the status code of the response and whether the
\* processing function was called. A request without movie_id does not pass
\* the request model (schemas.py, line 86) and is answered 422 by the
\* framework. An HTTPException raised inside the try block is an Exception
\* and is caught by the except clause of line 60.
moviemanager_endpoint(req, process_raises) ==
    IF ~req.movie_id_given
    THEN [status_code |-> 422, processed |-> FALSE]
    ELSE IF Truthy(req.s3_folder_path) /\ Truthy(req.s3_video_uri)
    THEN [status_code |-> 400, processed |-> FALSE]
    ELSE IF ~Truthy(req.s3_folder_path) /\ ~Truthy(req.s3_video_uri)
    THEN [status_code |-> 400, processed |-> FALSE]
    ELSE IF req.movie_id = 0
    THEN [status_code |-> 400, processed |-> FALSE]
    ELSE LET reference == IF Truthy(req.s3_video_uri) THEN req.s3_video_uri[1]
                          ELSE req.s3_folder_path[1]
         IN  IF ~startswith(reference, S3Scheme)
             THEN [status_code |-> 500, processed |-> FALSE]
             ELSE IF process_raises
             THEN [status_code |-> 500, processed |-> TRUE]
             ELSE [status_code |-> 200, processed |-> TRUE]

\* ----------------------------------------------------------- embedding blob
\* a JSON object is the sequence of its entries [uri, vector], keys distinct
Keys(dict) == {dict[k].uri : k \in 1..Len(dict)}

\* {**existing_data, **dict_data}
DictMerge(existing_data, dict_data) ==
    LET value(uri) == (CHOOSE k \in 1..Len(dict_data) : dict_data[k].uri = uri)
    IN  [k \in 1..Len(existing_data) |->
            IF existing_data[k].uri \in Keys(dict_data)
            THEN dict_data[value(existing_data[k].uri)]
            ELSE existing_data[k]]
        \o SelectSeq(dict_data, LAMBDA entry : entry.uri \notin Keys(existing_data))

\* save_json_to_s3, lines 404-422: what put_object stores. load is how
\* get_object and json.loads went: "ok", "NoSuchKey" when there is no object,
\* "error" for any other exception, after which the new entries alone are
\* stored
save_json_to_s3(existing_data, dict_data, load) ==
    IF load = "ok" THEN DictMerge(existing_data, dict_data) ELSE dict_data

\* ---------------------------------------------------------- scene selection
\* The summarization response is a sequence of tokens: a piece of text, the
\* tag [SCENE_SELECTION], the tag [/SCENE_SELECTION], or the line of a query,
\* "{idx}. {query}:" followed by the rest of the line.
TextToken == [kind |-> "text", idx |-> 0, rest |-> <<>>, listed |-> <<>>]
OpenTag == [kind |-> "open", idx |-> 0, rest |-> <<>>, listed |-> <<>>]
CloseTag == [kind |-> "close", idx |-> 0, rest |-> <<>>, listed |-> <<>>]

\* the line of query idx: rest is its text after the colon, listed the scene
\* indices the model meant by it
QueryLine(idx, rest, listed) ==
    [kind |-> "line", idx |-> idx, rest |-> rest, listed |-> listed]

\* re.findall(r'\d+', s) as integers
RECURSIVE FindAllNumbers(_)
FindAllNumbers(s) ==
    IF s = <<>> THEN <<>>
    ELSE IF IsDigit(Head(s))
    THEN <<ParseInt(DigitRun(s))>>
             \o FindAllNumbers(SubSeq(s, Len(DigitRun(s)) + 1, Len(s)))
    ELSE FindAllNumbers(Tail(s))

\* re.search(r'\[SCENE_SELECTION\](.*?)\[/SCENE_SELECTION\]', ..., re.DOTALL)
\* from position from on: the leftmost opening tag that has a closing tag
\* after it, with the nearest such closing tag
HasBlock(response, from) ==
    \E o \in from..Len(response), c \in from..Len(response) :
        o < c /\ response[o] = OpenTag /\ response[c] = CloseTag

BlockOpen(response, from) ==
    CHOOSE o \in from..Len(response) :
        /\ response[o] = OpenTag
        /\ \E c \in (o + 1)..Len(response) : response[c] = CloseTag
        /\ \A p \in from..(o - 1) :
              ~(response[p] = OpenTag /\ \E c \in (p + 1)..Len(response) : response[c] = CloseTag)

BlockClose(response, from) ==
    CHOOSE c \in (BlockOpen(response, from) + 1)..Len(response) :
        /\ response[c] = CloseTag
        /\ \A p \in (BlockOpen(response, from) + 1)..(c - 1) : response[p] # CloseTag

\* re.sub(r'\[SCENE_SELECTION\].*?\[/SCENE_SELECTION\]', '', ..., re.DOTALL)
RECURSIVE RemoveBlocks(_, _)
RemoveBlocks(response, from) ==
    IF HasBlock(response, from)
    THEN SubSeq(response, from, BlockOpen(response, from) - 1)
             \o RemoveBlocks(response, BlockClose(response, from) + 1)
    ELSE SubSeq(response, from, Len(response))

\* lines 372-392: the scene numbers of the query idx in the selection text,
\* taken from the first line of that query
SelectedNumbers(selection_text, idx) ==
    IF \E k \in 1..Len(selection_text) :
           selection_text[k].kind = "line" /\ selection_text[k].idx = idx
    THEN LET k == CHOOSE j \in 1..Len(selection_text) :
                      /\ selection_text[j].kind = "line"
                      /\ selection_text[j].idx = idx
                      /\ \A h \in 1..(j - 1) :
                            ~(selection_text[h].kind = "line" /\ selection_text[h].idx = idx)
         IN  FindAllNumbers(selection_text[k].rest)
    ELSE <<>>

\* get_bedrock_response_with_context, lines 364-404: the text returned as the
\* summary, and the scene numbers per query (queries is the number of
\* retrieval queries; parsed says whether scene_selections has any key)
ParseSceneSelection(claude_response, queries) ==
    IF queries > 0 /\ HasBlock(claude_response, 1)
    THEN [summary |-> RemoveBlocks(claude_response, 1),
          parsed |-> TRUE,
          scene_selections |->
              [idx \in 1..queries |->
                  SelectedNumbers(SubSeq(claude_response,
                                         BlockOpen(claude_response, 1) + 1,
                                         BlockClose(claude_response, 1) - 1), idx)]]
    ELSE [summary |-> claude_response,
          parsed |-> FALSE,
          scene_selections |-> [idx \in 1..queries |-> <<>>]]

\* ------------------------------------------------- scene/dialogue alignment
AssumedSceneLength == 5  \* scene_end = scene_start + 5

\* lines 921-925: what the prompt gets of a detected scene
SceneImage(scene) == [start_time |-> scene.start_time, image |-> scene.frame_image]

\* lines 161-168 of create_claude_prompt_with_context: the utterances listed
\* as the dialogue of a scene (every utterance of the inputs has a text)
SceneDialogue(scene_image, utterances) ==
    LET scene_start == scene_image.start_time
        scene_end == scene_start + AssumedSceneLength
    IN  SelectSeq(utterances,
                  LAMBDA utt : utt.start_time < scene_end /\ utt.end_time > scene_start)

\* ------------------------------------------------------------------ state
VARIABLES
    status,             \* Movie.status of the job's row
    summaries,          \* moviemanager_summary rows of the job
    video_duration,     \* what get_video_duration_from_s3 returns for the video
    pc,                 \* where process_single_video stands ("idle": no run)
    init,               \* the run's init argument
    chunks_info,        \* the run's chunk list
    total_chunks,
    resume_info,
    start_from,
    i,                  \* loop index of the chunk loop
    video_summaries,
    previous_summaries,
    summary,            \* the summarization result of the chunk in progress
    final_input,        \* what create_final_results was called with, the parts of the
                        \* response, and the nominations get_final_scenes collected
    outcome,            \* how the last run ended: "none", "running", "ok", "raised", "killed"
    run,                \* number of runs started
    failed_step,        \* the step that raised in the run, "none" when none did
    refailed,           \* the handler found the status already failed
    worked,             \* orders of the chunks whose iteration began in the run
    seeded,             \* previous_summaries as loaded before the loop
    skipped,            \* orders of the chunks skipped as empty since the last reset
    aborted,            \* order of the chunk in progress when the last run was cut, or 0
    resumed_after,      \* aborted, as the run found it when it started
    stored_prompts,     \* the job's custom prompts, as get_custom_prompts returns them
    req_segment_duration, \* the segment_duration argument of the run (req.segment_duration)
    utterances,         \* the transcription result of the chunk, after lines 913-915
    scenes,             \* the scene-detection result of the chunk, after lines 917-919
    context,            \* the context fragment of the last prompt built
    custom_prompts,     \* the run's custom_prompts
    final_summary,      \* what create_final_results returned
    chunk_files,        \* orders of the chunks whose extracted file of this run exists
    unsaved,            \* summary ids whose save returned False in the run
    transcribe_task,    \* the transcription call of the chunk: "none", "running",
                        \* "returned" or "raised"
    scene_task,         \* the scene-detection call of the chunk, likewise
    fn_in,              \* input of the pure function under check
    fn_out              \* its result

db == <<status, summaries>>
job == <<video_duration, stored_prompts>>
locals == <<init, req_segment_duration, chunks_info, total_chunks, resume_info,
            start_from, i, video_summaries, previous_summaries, summary, final_input,
            utterances, scenes, context, custom_prompts, final_summary>>
history == <<outcome, run, failed_step, refailed, worked, seeded, skipped,
             aborted, resumed_after, unsaved>>
tasks == <<transcribe_task, scene_task>>
vars == <<status, summaries, video_duration, pc, init, chunks_info, total_chunks,
          resume_info, start_from, i, video_summaries, previous_summaries, summary,
          final_input, outcome, run, failed_step, refailed, worked, seeded, skipped,
          aborted, resumed_after, stored_prompts, req_segment_duration, utterances,
          scenes, context, custom_prompts, final_summary, chunk_files, unsaved,
          transcribe_task, scene_task, fn_in, fn_out>>

\* -------------------------------------------------------- summary table
NoText == [run |-> 0, chunk |-> 0]

Ids(rows) == {r.summary_id : r \in rows}

DeleteAfter(rows, from_summary_id) ==
    {r \in rows : ~(r.summary_id > from_summary_id)}

\* crud.delete_summaries_from: the rows it leaves
delete_summaries_from(rows, from_summary_id) ==
    {r \in rows : ~(r.summary_id >= from_summary_id)}

CreateUnderNextId(rows, summary_id, summary_text) ==
    {r \in rows : r.summary_id # summary_id + 1}
        \cup {[summary_id |-> summary_id + 1, summary_text |-> summary_text]}

CreateUnderPreviousId(rows, summary_id, summary_text) ==
    {r \in rows : r.summary_id # summary_id - 1}
        \cup {[summary_id |-> summary_id - 1, summary_text |-> summary_text]}

\* crud.create_or_update_summary: the rows it leaves
create_or_update_summary(rows, summary_id, summary_text) ==
    {r \in rows : r.summary_id # summary_id}
        \cup {[summary_id |-> summary_id, summary_text |-> summary_text]}

\* .order_by(summary_id).all()
RECURSIVE OrderBySummaryId(_)
OrderBySummaryId(rows) ==
    IF rows = {} THEN <<>>
    ELSE LET first == CHOOSE r \in rows : \A q \in rows : r.summary_id <= q.summary_id
         IN <<first>> \o OrderBySummaryId(rows \ {first})

UpToBefore(rows, summary_id) ==
    OrderBySummaryId({r \in rows : r.summary_id < summary_id})

\* crud.get_summaries_up_to
get_summaries_up_to(rows, summary_id) ==
    OrderBySummaryId({r \in rows : r.summary_id <= summary_id})

\* the video_summaries entry built from a loaded row (lines 829-834, 847-852)
LoadedEntry(row) ==
    [summary |-> row.summary_text, order |-> row.summary_id, summary_id |-> row.summary_id]

\* ------------------------------------------------------- resume planner
ResumeAtNext(is_init, info, total) ==
    IF is_init THEN 0
    ELSE IF info.stage # "None"
         THEN IF info.stage = "organizing" \/ info.stage = "complete" THEN total
              ELSE IF info.stage = "proceeding" THEN info.current + 1
              ELSE 0
         ELSE 0

\* start_from as lines 778-815 of process_single_video leave it
resume_start(is_init, info, total) ==
    IF is_init THEN 0
    ELSE IF info.stage # "None"
         THEN IF info.stage = "organizing" \/ info.stage = "complete" THEN total
              ELSE IF info.stage = "proceeding" THEN info.current
              ELSE 0
         ELSE 0

\* --------------------------------------------------------------- Init
NoCall == [called |-> FALSE]

InitJob ==
    /\ status = PENDING
    /\ summaries = {}
    /\ pc = "idle"
    /\ init = FALSE
    /\ chunks_info = <<>>
    /\ total_chunks = 0
    /\ resume_info = None
    /\ start_from = 0
    /\ i = 0
    /\ video_summaries = <<>>
    /\ previous_summaries = <<>>
    /\ summary = NoText
    /\ final_input = [called |-> FALSE, texts |-> <<>>, parts |-> 0,
                      selected_scene_strings |-> <<>>]
    /\ outcome = "none"
    /\ run = 0
    /\ failed_step = "none"
    /\ refailed = FALSE
    /\ worked = <<>>
    /\ seeded = <<>>
    /\ skipped = {}
    /\ aborted = 0
    /\ resumed_after = 0
    /\ req_segment_duration = SegmentDefault
    /\ utterances = <<>>
    /\ scenes = <<>>
    /\ context = NoContext
    /\ custom_prompts = <<>>
    /\ final_summary = <<>>
    /\ chunk_files = {}
    /\ unsaved = {}
    /\ transcribe_task = "none"
    /\ scene_task = "none"

Init ==
    /\ InitJob
    /\ video_duration \in {u * DurationStep : u \in 0..MaxUnits}
    /\ stored_prompts \in {[k \in 1..m |-> k] : m \in 0..MaxPrompts}
    /\ fn_in = NoCall
    /\ fn_out = NoCall

\* ------------------------------------------- process_single_video: entry
\* Line 768 binds two names, chunks_info and segment_duration, to the result
\* of generate_video_chunks_info(s3_video_uri). The planner of
\* video_chunk_service.py returns the chunk list alone, so with it the bind
\* (or the division of line 774) raises and the run is PlanRaises, as it is
\* when the duration probe fails. StartInit and StartResume are the run from
\* line 769 on with chunks_info bound to the planned chunk list, the way the
\* rest of the function reads it (len(chunks_info), chunks_info[i]); the
\* call passes no segment length, so the planner's default applies.

\* the segment lengths a request asks for
RequestSegments == {DurationStep, SegmentDefault}

\* what every run sets when it starts
NewRun(is_init, segment_duration) ==
    /\ pc = "idle"
    /\ run < MaxRuns
    /\ run' = run + 1
    /\ init' = is_init
    /\ req_segment_duration' = segment_duration
    /\ outcome' = "running"
    /\ failed_step' = "none"
    /\ refailed' = FALSE
    /\ worked' = <<>>
    /\ seeded' = <<>>
    /\ resumed_after' = aborted
    /\ aborted' = 0
    /\ i' = 0
    /\ video_summaries' = <<>>
    /\ previous_summaries' = <<>>
    /\ summary' = NoText
    /\ final_input' = [called |-> FALSE, texts |-> <<>>, parts |-> 0,
                      selected_scene_strings |-> <<>>]
    /\ utterances' = <<>>
    /\ scenes' = <<>>
    /\ context' = NoContext
    /\ custom_prompts' = <<>>
    /\ final_summary' = <<>>
    /\ chunk_files' = {}
    /\ unsaved' = {}
    /\ transcribe_task' = "none"
    /\ scene_task' = "none"

HandleErrorNoMark(step) ==
    /\ status' = status
    /\ refailed' = startswith(status, FAILED_)
    /\ failed_step' = step
    /\ outcome' = "raised"
    /\ pc' = "idle"

\* the except clause of process_single_video (lines 1041-1052)
HandleError(step) ==
    /\ status' = mark_movie_failed(status)
    /\ refailed' = startswith(status, FAILED_)
    /\ failed_step' = step
    /\ outcome' = "raised"
    /\ pc' = "idle"

\* the planning call of line 768 raises (the duration probe fails, or the
\* call's result does not bind to the two names): straight to the handler
PlanRaises ==
    /\ pc = "idle"
    /\ run < MaxRuns
    /\ run' = run + 1
    /\ \E is_init \in BOOLEAN : init' = is_init
    /\ \E segment_duration \in RequestSegments : req_segment_duration' = segment_duration
    /\ status' = mark_movie_failed(status)
    /\ refailed' = startswith(status, FAILED_)
    /\ failed_step' = "plan"
    /\ outcome' = "raised"
    /\ pc' = "idle"
    /\ chunks_info' = <<>>
    /\ total_chunks' = 0
    /\ resume_info' = None
    /\ start_from' = 0
    /\ i' = 0
    /\ video_summaries' = <<>>
    /\ previous_summaries' = <<>>
    /\ summary' = NoText
    /\ final_input' = [called |-> FALSE, texts |-> <<>>, parts |-> 0,
                      selected_scene_strings |-> <<>>]
    /\ utterances' = <<>>
    /\ scenes' = <<>>
    /\ context' = NoContext
    /\ custom_prompts' = <<>>
    /\ final_summary' = <<>>
    /\ chunk_files' = {}
    /\ unsaved' = {}
    /\ transcribe_task' = "none"
    /\ scene_task' = "none"
    /\ worked' = <<>>
    /\ seeded' = <<>>
    /\ resumed_after' = aborted
    /\ aborted' = 0
    /\ UNCHANGED <<summaries, job, skipped, fn_in, fn_out>>

\* init=True: lines 766-784, up to the commit of delete_summaries_from
StartInit ==
    /\ \E segment_duration \in RequestSegments : NewRun(TRUE, segment_duration)
    /\ chunks_info' = generate_video_chunks_info(video_duration, SegmentDefault)
    /\ total_chunks' = Len(chunks_info')
    /\ resume_info' = None
    /\ start_from' = resume_start(TRUE, None, total_chunks')
    /\ summaries' = delete_summaries_from(summaries, 1)
    /\ skipped' = {}
    /\ pc' = "init_pending"
    /\ UNCHANGED <<status, job, fn_in, fn_out>>

\* line 785: update_movie_status(db, movie_id, "PENDING")
InitPending ==
    /\ pc = "init_pending"
    /\ status' = PENDING
    /\ pc' = "enter"
    /\ UNCHANGED <<tasks, summaries, job, locals, history, chunk_files, fn_in, fn_out>>

\* init=False: lines 766-778 and 795-815
StartResume ==
    /\ \E segment_duration \in RequestSegments : NewRun(FALSE, segment_duration)
    /\ chunks_info' = generate_video_chunks_info(video_duration, SegmentDefault)
    /\ total_chunks' = Len(chunks_info')
    /\ resume_info' = get_resume_info(status)
    /\ start_from' = resume_start(FALSE, resume_info', total_chunks')
    /\ pc' = "enter"
    /\ UNCHANGED <<status, summaries, job, skipped, fn_in, fn_out>>

LoadedEveryRow(rows, from, total) ==
    IF from > 0 /\ from < total
    THEN LET existing == get_summaries_up_to(rows, from)
         IN [video |-> [k \in 1..Len(existing) |-> LoadedEntry(existing[k])],
             previous |-> [k \in 1..Len(existing) |-> existing[k].summary_text]]
    ELSE IF from >= total
    THEN LET existing == OrderBySummaryId(rows)
         IN [video |-> [k \in 1..Len(existing) |-> LoadedEntry(existing[k])],
             previous |-> <<>>]
    ELSE [video |-> <<>>, previous |-> <<>>]

\* lines 817-855: video_summaries and previous_summaries before the loop
LoadedSummaries(rows, from, total) ==
    IF from > 0 /\ from < total
    THEN LET existing == get_summaries_up_to(rows, from)
         IN [video |-> [k \in 1..Len(existing) |-> LoadedEntry(existing[k])],
             previous |-> [k \in 1..Len(existing) |-> existing[k].summary_text]]
    ELSE IF from >= total
    THEN LET existing == SelectSeq(get_summaries_up_to(rows, total),
                                   LAMBDA row : row.summary_id <= total)
         IN [video |-> [k \in 1..Len(existing) |-> LoadedEntry(existing[k])],
             previous |-> <<>>]
    ELSE [video |-> <<>>, previous |-> <<>>]

\* lines 817-871: load, then the PROCEEDING[start_from/total] write, then
\* the job's custom prompts
Enter ==
    /\ pc = "enter"
    /\ LET loaded == LoadedSummaries(summaries, start_from, total_chunks)
       IN /\ video_summaries' = loaded.video
          /\ previous_summaries' = loaded.previous
          /\ seeded' = loaded.previous
    /\ status' = IF start_from < total_chunks
                 THEN ProceedingStatus(start_from, total_chunks)
                 ELSE status
    /\ custom_prompts' = stored_prompts
    /\ i' = start_from
    /\ pc' = "loop"
    /\ UNCHANGED <<tasks, summaries, job, init, req_segment_duration, chunks_info,
                   total_chunks, resume_info, start_from, summary, final_input,
                   utterances, scenes, context, final_summary, outcome, run,
                   failed_step, refailed, worked, skipped, aborted, resumed_after,
                   unsaved, chunk_files, fn_in, fn_out>>

\* -------------------------------------- process_single_video: chunk loop
InLoopBody == pc \in {"extract", "analyze", "summarize", "save"}

\* lines 875-890: the loop takes chunk i, writes PROCEEDING[i+1/total] and
\* calls extract_chunk_for_processing
ChunkBegin ==
    /\ pc = "loop"
    /\ i < total_chunks
    /\ status' = ProceedingStatus(i + 1, total_chunks)
    /\ worked' = Append(worked, i + 1)
    /\ pc' = "extract"
    /\ UNCHANGED <<tasks, summaries, job, locals, outcome, run, failed_step, refailed,
                   seeded, skipped, aborted, resumed_after, unsaved, chunk_files,
                   fn_in, fn_out>>

\* line 890 returns the extracted file; lines 896-899 make the two calls and
\* hand both to asyncio.gather, which starts them, each in a thread of its
\* own, before the run waits for either
Extract ==
    /\ pc = "extract"
    /\ chunk_files' = chunk_files \cup {i + 1}
    /\ transcribe_task' = "running"
    /\ scene_task' = "running"
    /\ pc' = "analyze"
    /\ UNCHANGED <<db, job, locals, history, fn_in, fn_out>>

\* transcribe_video returns in its thread
TranscribeReturns ==
    /\ pc = "analyze"
    /\ transcribe_task = "running"
    /\ transcribe_task' = "returned"
    /\ UNCHANGED <<scene_task, db, job, pc, locals, history, chunk_files, fn_in, fn_out>>

\* scene_process returns in its thread
SceneReturns ==
    /\ pc = "analyze"
    /\ scene_task = "running"
    /\ scene_task' = "returned"
    /\ UNCHANGED <<transcribe_task, db, job, pc, locals, history, chunk_files,
                   fn_in, fn_out>>

EitherReturned == transcribe_task = "returned" \/ scene_task = "returned"

\* await asyncio.gather(transcribe_task, scene_task) of line 899 has a result
BothReturned == transcribe_task = "returned" /\ scene_task = "returned"

\* lines 899-930: the gather is over when both analyses have returned;
\* has_utterances and has_scenes say which of the two results is not empty.
\* An empty chunk is skipped: continue runs the finally clause, whose unlink
\* succeeds or not (deleted)
Analyze(has_utterances, has_scenes, deleted) ==
    /\ pc = "analyze"
    /\ BothReturned
    /\ utterances' = IF has_utterances THEN <<"utterance">> ELSE <<>>
    /\ scenes' = IF has_scenes THEN <<"scene">> ELSE <<>>
    /\ LET scene_images == [k \in 1..Len(scenes') |-> "image"]
       IN IF IsEmptyChunk(utterances', scene_images)
          THEN /\ skipped' = skipped \cup {i + 1}
               /\ i' = i + 1
               /\ chunk_files' = cleanup_chunk_file(chunk_files, i + 1, deleted)
               /\ pc' = "loop"
          ELSE /\ skipped' = skipped
               /\ i' = i
               /\ chunk_files' = chunk_files
               /\ pc' = "summarize"
    /\ UNCHANGED <<tasks, db, job, init, req_segment_duration, chunks_info, total_chunks,
                   resume_info, start_from, video_summaries, previous_summaries,
                   summary, final_input, context, custom_prompts, final_summary,
                   outcome, run, failed_step, refailed, worked, seeded, aborted,
                   resumed_after, unsaved, fn_in, fn_out>>

\* lines 932-946: get_bedrock_response_with_context built the prompt from
\* previous_summaries and i, and returned the summary
Summarize ==
    /\ pc = "summarize"
    /\ context' = RollingContext(previous_summaries, i)
    /\ summary' = [run |-> run, chunk |-> i + 1]
    /\ pc' = "save"
    /\ UNCHANGED <<tasks, db, job, init, req_segment_duration, chunks_info, total_chunks,
                   resume_info, start_from, i, video_summaries, previous_summaries,
                   final_input, utterances, scenes, custom_prompts, final_summary,
                   history, chunk_files, fn_in, fn_out>>

SaveIgnoresSignal(rows, summary_id, summary_text, saved) ==
    create_or_update_summary(rows, summary_id, summary_text)

\* save_summary_to_db (lines 1054-1101) for an existing movie row: saved is
\* FALSE when create_or_update_summary raised and the save returned False
save_summary_to_db(rows, summary_id, summary_text, saved) ==
    IF saved THEN create_or_update_summary(rows, summary_id, summary_text) ELSE rows

\* lines 948-978: save under summary_id i+1, append, the finally clause,
\* next chunk
Save(saved, deleted) ==
    /\ pc = "save"
    /\ summaries' = save_summary_to_db(summaries, i + 1, summary, saved)
    /\ unsaved' = IF saved THEN unsaved ELSE unsaved \cup {i + 1}
    /\ video_summaries' = Append(video_summaries,
            [summary |-> summary, order |-> i + 1, summary_id |-> i + 1,
             scene_selections |-> SceneSelections(i + 1)])
    /\ previous_summaries' = Append(previous_summaries, summary)
    /\ chunk_files' = cleanup_chunk_file(chunk_files, i + 1, deleted)
    /\ i' = i + 1
    /\ pc' = "loop"
    /\ UNCHANGED <<tasks, status, job, init, req_segment_duration, chunks_info,
                   total_chunks, resume_info, start_from, summary, final_input,
                   utterances, scenes, context, custom_prompts, final_summary,
                   outcome, run, failed_step, refailed, worked, seeded, skipped,
                   aborted, resumed_after, fn_in, fn_out>>

\* the gather of line 899 when the call named by failed raises: the
\* exception goes to the awaiting run at once, whatever the other call is
\* doing, and the other call is left to itself; with both calls returned it
\* is a later line of the step that raises
GatherRaises(failed) ==
    IF failed = "transcribe" /\ transcribe_task = "running"
    THEN transcribe_task' = "raised" /\ scene_task' = scene_task
    ELSE IF failed = "scene" /\ scene_task = "running"
    THEN scene_task' = "raised" /\ transcribe_task' = transcribe_task
    ELSE BothReturned /\ UNCHANGED tasks

\* extraction, transcription, scene detection or summarization raises: the
\* finally clause (972-975), which has a file to delete unless extraction
\* raised, then the except clause (1041-1052)
ChunkStepRaises(deleted, failed) ==
    /\ pc \in {"extract", "analyze", "summarize"}
    /\ IF pc = "analyze" THEN GatherRaises(failed) ELSE UNCHANGED tasks
    /\ HandleError(pc)
    /\ aborted' = i + 1
    /\ chunk_files' = IF pc = "extract" THEN chunk_files
                      ELSE cleanup_chunk_file(chunk_files, i + 1, deleted)
    /\ UNCHANGED <<summaries, job, locals, run, worked, seeded, skipped,
                   resumed_after, unsaved, fn_in, fn_out>>

\* ------------------------------------ process_single_video: final stage
\* lines 981-985: the loop is over, update_movie_status(..., "ORGANIZING")
Organize ==
    /\ pc = "loop"
    /\ i >= total_chunks
    /\ status' = ORGANIZING
    /\ pc' = "final"
    /\ UNCHANGED <<tasks, summaries, job, locals, history, chunk_files, fn_in, fn_out>>

AnswerLetters == <<"a", "b", "c", "d", "e", "f", "g", "h", "i", "j", "k", "l", "m">>

\* a response text of the model with the given number of parts
RECURSIVE Response(_)
Response(parts) ==
    IF parts <= 1 THEN <<AnswerLetters[1]>>
    ELSE Response(parts - 1) \o <<Delimiter, AnswerLetters[parts]>>

\* lines 987-1010: the prompts are capped, create_final_results gets the
\* model's response, of some number of parts, and returns the pairs or
\* raises; then get_final_scenes collected the nominations of the job's
\* retrieval query from video_summaries and returned
Final(parts) ==
    /\ pc = "final"
    /\ custom_prompts' = TruncatePrompts(custom_prompts)
    /\ final_input' = [called |-> TRUE,
                       texts |-> [k \in 1..Len(video_summaries) |->
                                     video_summaries[k].summary],
                       parts |-> parts,
                       selected_scene_strings |->
                           IF create_final_results(custom_prompts', Response(parts)).raised
                           THEN <<>>
                           ELSE CollectSelections(video_summaries)]
    /\ LET result == create_final_results(custom_prompts', Response(parts))
       IN IF result.raised
          THEN /\ HandleError("parse")
               /\ final_summary' = final_summary
               /\ aborted' = 0
          ELSE /\ final_summary' = result.final_responses
               /\ pc' = "save_final"
               /\ UNCHANGED <<tasks, status, refailed, failed_step, outcome, aborted>>
    /\ UNCHANGED <<tasks, summaries, job, init, req_segment_duration, chunks_info,
                   total_chunks, resume_info, start_from, i, video_summaries,
                   previous_summaries, summary, utterances, scenes, context, run,
                   worked, seeded, skipped, resumed_after, unsaved, chunk_files,
                   fn_in, fn_out>>

\* the request of create_final_results or get_final_scenes raises
FinalRaises ==
    /\ pc = "final"
    /\ HandleError("final")
    /\ aborted' = 0
    /\ UNCHANGED <<tasks, summaries, job, locals, run, worked, seeded, skipped,
                   resumed_after, unsaved, chunk_files, fn_in, fn_out>>

\* lines 1012-1021: the final summary under summary_id total_chunks + 1
SaveFinal(saved) ==
    /\ pc = "save_final"
    /\ summaries' = save_summary_to_db(summaries, total_chunks + 1,
                                       [run |-> run, chunk |-> 0], saved)
    /\ unsaved' = IF saved THEN unsaved ELSE unsaved \cup {total_chunks + 1}
    /\ pc' = "complete"
    /\ UNCHANGED <<tasks, status, job, locals, outcome, run, failed_step, refailed, worked,
                   seeded, skipped, aborted, resumed_after, chunk_files, fn_in, fn_out>>

\* lines 1023-1027: update_movie_status(..., "COMPLETE")
Complete ==
    /\ pc = "complete"
    /\ status' = COMPLETE
    /\ pc' = "return"
    /\ UNCHANGED <<tasks, summaries, job, locals, history, chunk_files, fn_in, fn_out>>

\* lines 1032-1039: the result is returned
Return ==
    /\ pc = "return"
    /\ outcome' = "ok"
    /\ pc' = "idle"
    /\ UNCHANGED <<tasks, db, job, locals, run, failed_step, refailed, worked, seeded,
                   skipped, aborted, resumed_after, unsaved, chunk_files,
                   fn_in, fn_out>>

\* the process is terminated during a run: no handler runs, and the threads
\* of the two calls end with the process
Kill ==
    /\ pc # "idle"
    /\ transcribe_task' = "none"
    /\ scene_task' = "none"
    /\ outcome' = "killed"
    /\ aborted' = IF InLoopBody THEN i + 1 ELSE 0
    /\ pc' = "idle"
    /\ UNCHANGED <<db, job, locals, run, failed_step, refailed, worked, seeded,
                   skipped, resumed_after, unsaved, chunk_files, fn_in, fn_out>>

Next ==
    \/ PlanRaises
    \/ StartInit
    \/ InitPending
    \/ StartResume
    \/ Enter
    \/ ChunkBegin
    \/ Extract
    \/ TranscribeReturns
    \/ SceneReturns
    \/ \E has_utterances, has_scenes, deleted \in BOOLEAN :
           Analyze(has_utterances, has_scenes, deleted)
    \/ Summarize
    \/ \E saved, deleted \in BOOLEAN : Save(saved, deleted)
    \/ \E deleted \in BOOLEAN, failed \in {"transcribe", "scene"} :
           ChunkStepRaises(deleted, failed)
    \/ Organize
    \/ \E parts \in 1..MaxParts : Final(parts)
    \/ FinalRaises
    \/ \E saved \in BOOLEAN : SaveFinal(saved)
    \/ Complete
    \/ Return
    \/ Kill

Spec == Init /\ [][Next]_vars

\* ------------------------------------------- the status codec, on its own
Unknown == [stage |-> "unknown", current |-> 0, total |-> 0]

CanonicalStages ==
    {[stage |-> s, current |-> 0, total |-> 0] : s \in {"pending", "organizing", "complete"}}
        \cup {[stage |-> "proceeding", current |-> c, total |-> t] :
                c \in 0..MaxCount, t \in 0..MaxCount}

\* the status string the run writes for a stage (lines 785, 859, 881, 983, 1025)
CanonicalStatus(d) ==
    CASE d.stage = "pending" -> PENDING
      [] d.stage = "proceeding" -> ProceedingStatus(d.current, d.total)
      [] d.stage = "organizing" -> ORGANIZING
      [] d.stage = "complete" -> COMPLETE

\* status strings no stage is written as
Unparseable ==
    { <<>>,
      <<"D", "O", "N", "E">>,
      <<"p", "e", "n", "d", "i", "n", "g">>,
      <<"P", "E", "N", "D", "I", "N", "G", "S">>,
      PROCEEDING_OPEN,
      PROCEEDING_OPEN \o <<"x", "/", "2", "]">>,
      PROCEEDING_OPEN \o <<"1", "/", "]">>,
      PROCEEDING_OPEN \o <<"1", "-", "2", "]">>,
      PROCEEDING_OPEN \o <<"1", "/", "2">> }

CodecInputs ==
    { [stage |-> d, plain |-> CanonicalStatus(d), prefixed |-> f, is_init |-> b,
       total_chunks |-> n] :
        d \in {x \in CanonicalStages : x.current <= x.total},
        f \in BOOLEAN, b \in BOOLEAN, n \in 0..MaxChunksIn }
    \cup
    { [stage |-> Unknown, plain |-> u, prefixed |-> f, is_init |-> b,
       total_chunks |-> n] :
        u \in Unparseable, f \in BOOLEAN, b \in BOOLEAN, n \in 0..MaxChunksIn }

\* the status string of an input: its plain string, FAILED_ in front when prefixed
StoredStatus(in) == IF in.prefixed THEN FAILED_ \o in.plain ELSE in.plain

InitCodec ==
    /\ InitJob
    /\ video_duration = 0
    /\ stored_prompts = <<>>
    /\ fn_in \in CodecInputs
    /\ fn_out = NoCall

\* get_resume_info on the stored status, and the start index lines 778-815
\* take from it
DecodeStatus ==
    /\ fn_out = NoCall
    /\ fn_out' = [called |-> TRUE,
                  info |-> get_resume_info(StoredStatus(fn_in)),
                  plain_info |-> get_resume_info(fn_in.plain),
                  start |-> resume_start(fn_in.is_init,
                                         get_resume_info(StoredStatus(fn_in)),
                                         fn_in.total_chunks)]
    /\ UNCHANGED <<tasks, db, job, pc, locals, history, chunk_files, fn_in>>

NextCodec == DecodeStatus

SpecCodec == InitCodec /\ [][NextCodec]_vars

\* ------------------------------------------ the chunk planner, on its own
InitPlanner ==
    /\ InitJob
    /\ video_duration = 0
    /\ stored_prompts = <<>>
    /\ fn_in \in [total_duration : (0 - 1)..MaxD, segment_duration : 1..MaxL]
    /\ fn_out = NoCall

\* generate_video_chunks_info on a probed duration and a segment length
PlanChunks ==
    /\ fn_out = NoCall
    /\ fn_out' = [called |-> TRUE,
                  chunks |-> generate_video_chunks_info(fn_in.total_duration,
                                                        fn_in.segment_duration)]
    /\ UNCHANGED <<tasks, db, job, pc, locals, history, chunk_files, fn_in>>

NextPlanner == PlanChunks

SpecPlanner == InitPlanner /\ [][NextPlanner]_vars

\* ---------------------------------------- the rolling context, on its own
\* the summaries pushed so far, in chunk order: previous_summaries.append
RECURSIVE PushedSummaries(_)
PushedSummaries(orders) ==
    IF orders = {} THEN <<>>
    ELSE LET last == CHOOSE k \in orders : \A j \in orders : j <= k
         IN Append(PushedSummaries(orders \ {last}), [run |-> 1, chunk |-> last])

InitContext ==
    /\ InitJob
    /\ video_duration = 0
    /\ stored_prompts = <<>>
    /\ fn_in \in {in \in [summarized : SUBSET (1..MaxIndex), index : 0..MaxIndex] :
                    \A k \in in.summarized : k <= in.index}
    /\ fn_out = NoCall

\* the prompt of the chunk at fn_in.index, the chunks of fn_in.summarized
\* having been summarized before it and the others skipped
RenderContext ==
    /\ fn_out = NoCall
    /\ fn_out' = [called |-> TRUE,
                  context |-> RollingContext(PushedSummaries(fn_in.summarized),
                                             fn_in.index)]
    /\ UNCHANGED <<tasks, db, job, pc, locals, history, chunk_files, fn_in>>

NextContext == RenderContext

SpecContext == InitContext /\ [][NextContext]_vars

\* ---------------------------------------- final synthesis, on its own
InitFinal ==
    /\ InitJob
    /\ video_duration = 0
    /\ stored_prompts = <<>>
    /\ fn_in \in [prompts : 0..MaxStored, parts : 1..MaxResponseParts]
    /\ fn_out = NoCall

\* lines 987-998 for a job with fn_in.prompts stored prompts and a response
\* of fn_in.parts parts
FinalSynthesis ==
    /\ fn_out = NoCall
    /\ LET capped == TruncatePrompts([k \in 1..fn_in.prompts |-> k])
       IN fn_out' = [called |-> TRUE,
                     prompts |-> capped,
                     result |-> create_final_results(capped, Response(fn_in.parts))]
    /\ UNCHANGED <<tasks, db, job, pc, locals, history, chunk_files, fn_in>>

NextFinal == FinalSynthesis

SpecFinal == InitFinal /\ [][NextFinal]_vars

\* ----------------------------------------- scene retrieval, on its own
MaxNominations == 4   \* most scene tokens nominated for the query

\* the scenes of the job, in the order their embeddings are stored:
\* chunk by chunk, scene by scene
SceneKeys == <<[chunk |-> 1, scene |-> 1], [chunk |-> 1, scene |-> 2],
               [chunk |-> 1, scene |-> 10], [chunk |-> 2, scene |-> 1]>>

\* similarity of each scene to the query embedding, pairwise distinct
Rankings == {<<4, 3, 2, 1>>, <<1, 2, 3, 4>>, <<2, 4, 1, 3>>}

\* the blob that holds the embeddings of the scenes in kept; an embedding
\* that failed is not stored, and a blob is only written with an entry in it
\* (detect_and_embed_scenes)
StoredBlob(kept, ranking) ==
    LET entry(k) == [uri |-> ThumbnailUrl(SceneKeys[k].chunk, SceneKeys[k].scene),
                     similarity |-> ranking[k]]
        all == [k \in 1..Len(SceneKeys) |-> entry(k)]
        at == [k \in 1..Len(SceneKeys) |-> k]
        keptAt == SelectSeq(at, LAMBDA k : k \in kept)
    IN  [k \in 1..Len(keptAt) |-> all[keptAt[k]]]

NominatedTokens(picks) ==
    [k \in 1..Len(picks) |-> SceneToken(SceneKeys[picks[k]].chunk, SceneKeys[picks[k]].scene)]

InitRetrieval ==
    /\ InitJob
    /\ video_duration = 0
    /\ stored_prompts = <<>>
    /\ \E kept \in (SUBSET (1..Len(SceneKeys))) \ {{}}, ranking \in Rankings,
          n \in 0..MaxNominations :
          \E picks \in [1..n -> 1..Len(SceneKeys)] :
              fn_in = [blob |-> StoredBlob(kept, ranking),
                       selected_scene_strings |-> NominatedTokens(picks)]
    /\ fn_out = NoCall

\* lines 548-609 for one query
RetrieveScenes ==
    /\ fn_out = NoCall
    /\ fn_out' = [called |-> TRUE,
                  selected_uris_from_llm |->
                      ResolveSelected(UriList(fn_in.blob), fn_in.selected_scene_strings),
                  result |-> SelectScenes(fn_in.blob, fn_in.selected_scene_strings)]
    /\ UNCHANGED <<tasks, db, job, pc, locals, history, chunk_files, fn_in>>

NextRetrieval == RetrieveScenes

SpecRetrieval == InitRetrieval /\ [][NextRetrieval]_vars

\* ------------------------------------------- the translation, on its own
MaxQueries == 2          \* most retrieval queries given to the translation
MaxResponseTokens == 5   \* most tokens in the translation response

\* a retrieval query, as the job stores it
Query(k) == <<"query">> \o FormatInt(k)

ResponseTokens == {TranslationDelimiter, Blank, "word"}

InitTranslate ==
    /\ InitJob
    /\ video_duration = 0
    /\ stored_prompts = <<>>
    /\ \E n \in 0..MaxQueries, m \in 0..MaxResponseTokens :
          \E translated_text \in [1..m -> ResponseTokens] :
              fn_in = [text_list |-> [k \in 1..n |-> Query(k)],
                       translated_text |-> translated_text]
    /\ fn_out = NoCall

\* line 529: get_final_scenes asks for the translation of the queries
Translate ==
    /\ fn_out = NoCall
    /\ fn_out' = [called |-> TRUE,
                  result |-> translate_with_claude(fn_in.text_list, fn_in.translated_text)]
    /\ UNCHANGED <<tasks, db, job, pc, locals, history, chunk_files, fn_in>>

NextTranslate == Translate

SpecTranslate == InitTranslate /\ [][NextTranslate]_vars

\* ------------------------------------------- the HTTP boundary, on its own
\* the references a request can carry: none, the empty text, an s3:// one
\* and one of another scheme
References ==
    {<<>>, << <<>> >>, <<S3Scheme \o <<"b", "/", "v">>>>,
     <<<<"h", "t", "t", "p", ":", "/", "/", "b", "/", "v">>>>}

InitRequest ==
    /\ InitJob
    /\ video_duration = 0
    /\ stored_prompts = <<>>
    /\ fn_in \in [s3_folder_path : References, s3_video_uri : References,
                  movie_id_given : BOOLEAN, movie_id : {0, 1},
                  process_raises : BOOLEAN]
    /\ fn_out = NoCall

\* POST /moviemanager
Post ==
    /\ fn_out = NoCall
    /\ fn_out' = [called |-> TRUE,
                  response |-> moviemanager_endpoint(fn_in, fn_in.process_raises)]
    /\ UNCHANGED <<tasks, db, job, pc, locals, history, chunk_files, fn_in>>

NextRequest == Post

SpecRequest == InitRequest /\ [][NextRequest]_vars

\* ---------------------------------------- the embedding blob, on its own
\* the entries of the scenes in kept, all with the same vector
Embedded(kept, vector) ==
    LET at == [k \in 1..Len(SceneKeys) |-> k]
        keptAt == SelectSeq(at, LAMBDA k : k \in kept)
    IN  [k \in 1..Len(keptAt) |->
            [uri |-> ThumbnailUrl(SceneKeys[keptAt[k]].chunk, SceneKeys[keptAt[k]].scene),
             vector |-> vector]]

\* the stored object, if there is one, with the vectors earlier calls gave,
\* and the entries of the chunk that was just embedded; a chunk worked again
\* by a resumed run brings keys the object already has
InitBlob ==
    /\ InitJob
    /\ video_duration = 0
    /\ stored_prompts = <<>>
    /\ \E stored \in SUBSET (1..Len(SceneKeys)),
          embedded \in (SUBSET (1..Len(SceneKeys))) \ {{}},
          load_fails \in BOOLEAN :
          fn_in = [exists |-> stored # {},
                   existing_data |-> Embedded(stored, "old"),
                   dict_data |-> Embedded(embedded, "new"),
                   load |-> IF load_fails THEN "error"
                            ELSE IF stored # {} THEN "ok" ELSE "NoSuchKey"]
    /\ fn_out = NoCall

\* detect_and_embed_scenes, lines 260-261
WriteBlob ==
    /\ fn_out = NoCall
    /\ fn_out' = [called |-> TRUE,
                  stored |-> save_json_to_s3(fn_in.existing_data, fn_in.dict_data,
                                             fn_in.load)]
    /\ UNCHANGED <<tasks, db, job, pc, locals, history, chunk_files, fn_in>>

NextBlob == WriteBlob

SpecBlob == InitBlob /\ [][NextBlob]_vars

\* ----------------------------------------- the scene selection, on its own
MaxSelectionTokens == 4  \* most tokens in a summarization response

\* what the model writes after the colon of a query line
LineRests ==
    {[text |-> <<>>, listed |-> <<>>],
     [text |-> <<"0", ",", " ", "2">>, listed |-> <<0, 2>>],
     [text |-> <<"S", "c", "e", "n", "e", " ", "1", "0">>, listed |-> <<10>>]}

SelectionTokens ==
    {TextToken, OpenTag, CloseTag}
        \cup {QueryLine(idx, r.text, r.listed) : idx \in 1..MaxQueries, r \in LineRests}

InitSelection ==
    /\ InitJob
    /\ video_duration = 0
    /\ stored_prompts = <<>>
    /\ \E queries \in 0..MaxQueries, n \in 0..MaxSelectionTokens, chunk \in 1..2 :
          \E claude_response \in [1..n -> SelectionTokens] :
              fn_in = [queries |-> queries, current_chunk |-> chunk,
                       claude_response |-> claude_response]
    /\ fn_out = NoCall

\* lines 935-946 for one chunk: the summary and the tokens per query
ParseSelection ==
    /\ fn_out = NoCall
    /\ LET result == ParseSceneSelection(fn_in.claude_response, fn_in.queries)
       IN fn_out' = [called |-> TRUE,
                     summary |-> result.summary,
                     parsed |-> result.parsed,
                     adjusted_scene_selections |->
                         [idx \in 1..fn_in.queries |->
                             AdjustSelections(fn_in.current_chunk,
                                              result.scene_selections[idx])]]
    /\ UNCHANGED <<tasks, db, job, pc, locals, history, chunk_files, fn_in>>

NextSelection == ParseSelection

SpecSelection == InitSelection /\ [][NextSelection]_vars

\* ------------------------------------------- the alignment, on its own
MaxUtterances == 2    \* most utterances of the chunk given to the alignment

\* a detected scene and an utterance of the transcription, in seconds from
\* the start of the chunk
DetectedScenes ==
    {[start_time |-> s, end_time |-> s + d, frame_image |-> "image"] :
        s \in {0, 5}, d \in {2, 5, 10}}

Utterances ==
    {[start_time |-> s, end_time |-> s + d, text |-> "text"] :
        s \in {0, 3, 7, 12}, d \in {1, 4}}

InitAlign ==
    /\ InitJob
    /\ video_duration = 0
    /\ stored_prompts = <<>>
    /\ \E scene \in DetectedScenes, n \in 1..MaxUtterances :
          \E given \in [1..n -> Utterances] :
              fn_in = [scene |-> scene, utterances |-> given]
    /\ fn_out = NoCall

\* lines 921-925 and the prompt built by line 935 for one scene
Align ==
    /\ fn_out = NoCall
    /\ fn_out' = [called |-> TRUE,
                  dialogue |-> SceneDialogue(SceneImage(fn_in.scene), fn_in.utterances)]
    /\ UNCHANGED <<tasks, db, job, pc, locals, history, chunk_files, fn_in>>

NextAlign == Align

SpecAlign == InitAlign /\ [][NextAlign]_vars

\* ------------------------------------ process_videos_from_folder, the run
\* The folder run keeps the names of the single-video run where the code
\* does; its total_videos is held in total_chunks.
MaxVideos == 2           \* most video files in the folder

\* parse_final_summary(final_summary_text, expected_len): the parameters
\* without a default
ParseFinalSummaryParams == 2

\* Python's binding of a call with the given number of positional arguments
\* to a function with the given number of required parameters and no others
BindRaises(given, required) == given # required

\* line 1330: parse_final_summary(final_summary)
ParseCallArgs == 1

InitFolder ==
    /\ InitJob
    /\ video_duration = 0
    /\ stored_prompts \in {[k \in 1..m |-> k] : m \in 0..MaxPrompts}
    /\ fn_in \in {[video_uris |-> [k \in 1..n |-> k]] : n \in 0..MaxVideos}
    /\ fn_out = NoCall

\* line 1120: get_video_files_from_s3_folder raises for a folder with
\* no video file, or when the listing fails
FolderListRaises ==
    /\ pc = "idle"
    /\ run < MaxRuns
    /\ run' = run + 1
    /\ \E is_init \in BOOLEAN : init' = is_init
    /\ HandleError("list")
    /\ resumed_after' = aborted
    /\ aborted' = 0
    /\ UNCHANGED <<tasks, summaries, job, req_segment_duration, chunks_info,
                   total_chunks, resume_info, start_from, i, video_summaries,
                   previous_summaries, summary, final_input, utterances, scenes,
                   context, custom_prompts, final_summary, worked, seeded, skipped,
                   unsaved, chunk_files, fn_in, fn_out>>

\* init=True: lines 1120-1134
FolderStartInit ==
    /\ fn_in.video_uris # <<>>
    /\ NewRun(TRUE, SegmentDefault)
    /\ total_chunks' = Len(fn_in.video_uris)
    /\ resume_info' = None
    /\ start_from' = 0
    /\ summaries' = delete_summaries_from(summaries, 1)
    /\ status' = PENDING
    /\ skipped' = {}
    /\ pc' = "folder_enter"
    /\ UNCHANGED <<job, chunks_info, fn_in, fn_out>>

\* init=False: lines 1135-1148 and 1164-1171
FolderStartResume ==
    /\ fn_in.video_uris # <<>>
    /\ NewRun(FALSE, SegmentDefault)
    /\ total_chunks' = Len(fn_in.video_uris)
    /\ resume_info' = get_resume_info(status)
    /\ start_from' = resume_start(FALSE, resume_info', total_chunks')
    /\ pc' = IF resume_info'.stage \in {"organizing", "complete"}
             THEN "folder_resume_load" ELSE "folder_enter"
    /\ UNCHANGED <<status, summaries, job, chunks_info, skipped, fn_in, fn_out>>

\* lines 1149-1163, the branch of the organizing and complete stages: it
\* appends every loaded row to video_summaries before the name is bound
\* (lines 1174-1177), so with a row to load the append of line 1156 raises
\* UnboundLocalError
FolderResumeLoad ==
    /\ pc = "folder_resume_load"
    /\ IF get_summaries_up_to(summaries, total_chunks) # <<>>
       THEN HandleError("load")
       ELSE /\ pc' = "folder_enter"
            /\ UNCHANGED <<status, refailed, failed_step, outcome>>
    /\ UNCHANGED <<tasks, summaries, job, locals, run, worked, seeded, skipped,
                   aborted, resumed_after, unsaved, chunk_files, fn_in, fn_out>>

\* lines 1173-1217: load, then the PROCEEDING[start_from/total] write
FolderEnter ==
    /\ pc = "folder_enter"
    /\ LET loaded == LoadedSummaries(summaries, start_from, total_chunks)
       IN /\ video_summaries' = loaded.video
          /\ previous_summaries' = loaded.previous
          /\ seeded' = loaded.previous
    /\ status' = IF start_from < total_chunks
                 THEN ProceedingStatus(start_from, total_chunks)
                 ELSE status
    /\ i' = start_from
    /\ pc' = "folder_loop"
    /\ UNCHANGED <<tasks, summaries, job, init, req_segment_duration, chunks_info,
                   total_chunks, resume_info, start_from, summary, final_input,
                   utterances, scenes, context, custom_prompts, final_summary,
                   outcome, run, failed_step, refailed, worked, skipped, aborted,
                   resumed_after, unsaved, chunk_files, fn_in, fn_out>>

\* lines 1224-1238: the loop takes video i, writes PROCEEDING[i+1/total] and
\* awaits the two calls
FolderVideoBegin ==
    /\ pc = "folder_loop"
    /\ i < total_chunks
    /\ status' = ProceedingStatus(i + 1, total_chunks)
    /\ worked' = Append(worked, i + 1)
    /\ pc' = "folder_gather"
    /\ UNCHANGED <<tasks, summaries, job, locals, outcome, run, failed_step, refailed,
                   seeded, skipped, aborted, resumed_after, unsaved, chunk_files,
                   fn_in, fn_out>>

\* lines 1238-1290: the gather returned; a video with neither utterances
\* nor scenes is skipped, any other is summarized, saved under i+1 and
\* appended
FolderVideo(has_utterances, has_scenes, saved) ==
    /\ pc = "folder_gather"
    /\ utterances' = IF has_utterances THEN <<"utterance">> ELSE <<>>
    /\ scenes' = IF has_scenes THEN <<"scene">> ELSE <<>>
    /\ LET scene_images == [k \in 1..Len(scenes') |-> "image"]
       IN IF IsEmptyChunk(utterances', scene_images)
          THEN /\ skipped' = skipped \cup {i + 1}
               /\ UNCHANGED <<context, summary, summaries, unsaved, video_summaries,
                              previous_summaries>>
          ELSE /\ skipped' = skipped
               /\ context' = RollingContext(previous_summaries, i)
               /\ summary' = [run |-> run, chunk |-> i + 1]
               /\ summaries' = save_summary_to_db(summaries, i + 1, summary', saved)
               /\ unsaved' = IF saved THEN unsaved ELSE unsaved \cup {i + 1}
               /\ video_summaries' = Append(video_summaries,
                      [summary |-> summary', order |-> i + 1, summary_id |-> i + 1])
               /\ previous_summaries' = Append(previous_summaries, summary')
    /\ i' = i + 1
    /\ pc' = "folder_loop"
    /\ UNCHANGED <<tasks, status, job, init, req_segment_duration, chunks_info,
                   total_chunks, resume_info, start_from, final_input,
                   custom_prompts, final_summary, outcome, run, failed_step,
                   refailed, worked, seeded, aborted, resumed_after, chunk_files,
                   fn_in, fn_out>>

\* transcription, scene detection or summarization of the video raises
FolderVideoRaises ==
    /\ pc = "folder_gather"
    /\ HandleError("analyze")
    /\ aborted' = i + 1
    /\ UNCHANGED <<tasks, summaries, job, locals, run, worked, seeded, skipped,
                   resumed_after, unsaved, chunk_files, fn_in, fn_out>>

\* lines 1292-1301: the ORGANIZING write, then the job's prompts are read
FolderOrganize ==
    /\ pc = "folder_loop"
    /\ i >= total_chunks
    /\ status' = ORGANIZING
    /\ custom_prompts' = stored_prompts
    /\ pc' = "folder_final"
    /\ UNCHANGED <<tasks, summaries, job, init, req_segment_duration, chunks_info,
                   total_chunks, resume_info, start_from, i, video_summaries,
                   previous_summaries, summary, final_input, utterances, scenes,
                   context, final_summary, history, chunk_files, fn_in, fn_out>>

\* lines 1304-1307: create_final_results on the model's response, of some
\* number of parts
FolderFinal(parts) ==
    /\ pc = "folder_final"
    /\ final_input' = [called |-> TRUE,
                       texts |-> [k \in 1..Len(video_summaries) |->
                                     video_summaries[k].summary],
                       parts |-> parts,
                       selected_scene_strings |-> <<>>]
    /\ LET result == create_final_results(custom_prompts, Response(parts))
       IN IF result.raised
          THEN /\ HandleError("parse")
               /\ final_summary' = final_summary
          ELSE /\ final_summary' = result.final_responses
               /\ pc' = "folder_save_final"
               /\ UNCHANGED <<status, refailed, failed_step, outcome>>
    /\ UNCHANGED <<tasks, summaries, job, init, req_segment_duration, chunks_info,
                   total_chunks, resume_info, start_from, i, video_summaries,
                   previous_summaries, summary, utterances, scenes, context,
                   custom_prompts, run, worked, seeded, skipped, aborted,
                   resumed_after, unsaved, chunk_files, fn_in, fn_out>>

\* lines 1309-1318: the final summary is saved under total_videos + 1
FolderSaveFinal(saved) ==
    /\ pc = "folder_save_final"
    /\ summaries' = save_summary_to_db(summaries, total_chunks + 1,
                                       [run |-> run, chunk |-> 0], saved)
    /\ unsaved' = IF saved THEN unsaved ELSE unsaved \cup {total_chunks + 1}
    /\ pc' = "folder_complete"
    /\ UNCHANGED <<tasks, status, job, locals, outcome, run, failed_step, refailed,
                   worked, seeded, skipped, aborted, resumed_after, chunk_files,
                   fn_in, fn_out>>

\* lines 1320-1324: update_movie_status(..., "COMPLETE")
FolderComplete ==
    /\ pc = "folder_complete"
    /\ status' = COMPLETE
    /\ pc' = "folder_parse"
    /\ UNCHANGED <<tasks, summaries, job, locals, history, chunk_files, fn_in, fn_out>>

\* lines 1329-1352: the call of parse_final_summary, inside the try; when
\* its arguments bind the run returns its result, when they do not the
\* TypeError goes to the except clause
FolderParse ==
    /\ pc = "folder_parse"
    /\ IF BindRaises(ParseCallArgs, ParseFinalSummaryParams)
       THEN HandleError("return")
       ELSE /\ outcome' = "ok"
            /\ pc' = "idle"
            /\ UNCHANGED <<status, failed_step, refailed>>
    /\ UNCHANGED <<tasks, summaries, job, locals, run, worked, seeded, skipped,
                   aborted, resumed_after, unsaved, chunk_files, fn_in, fn_out>>

NextFolder ==
    \/ FolderListRaises
    \/ FolderStartInit
    \/ FolderStartResume
    \/ FolderResumeLoad
    \/ FolderEnter
    \/ FolderVideoBegin
    \/ \E has_utterances, has_scenes, saved \in BOOLEAN :
           FolderVideo(has_utterances, has_scenes, saved)
    \/ FolderVideoRaises
    \/ FolderOrganize
    \/ \E parts \in 1..MaxParts : FolderFinal(parts)
    \/ \E saved \in BOOLEAN : FolderSaveFinal(saved)
    \/ FolderComplete
    \/ FolderParse
    \/ Kill

SpecFolder == InitFolder /\ [][NextFolder]_vars

\* =================================================================== claims
\* the texts of the persisted rows with summary_id <= max_id, by ascending id
PersistedTexts(max_id) ==
    LET ids == {id \in Ids(summaries) : id <= max_id}
        nth(k) == CHOOSE id \in ids : Cardinality({j \in ids : j < id}) = k - 1
    IN [k \in 1..Cardinality(ids) |->
          (CHOOSE r \in summaries : r.summary_id = nth(k)).summary_text]

\* the chunk count of the job's video
VideoChunks == Len(generate_video_chunks_info(video_duration, SegmentDefault))

\* C1: a run with init=false that follows a run cut (by an error or a kill)
\* while the chunk of order k was in progress, after the PROCEEDING[k/total]
\* write and before the summary was persisted, starts its chunk work at the
\* chunk of order k.
C1_ResumesAtSameChunk ==
    (init = FALSE /\ outcome # "none" /\ resumed_after > 0 /\ worked # <<>>)
        => worked[1] = resumed_after

C3_CompleteCoversEveryChunk ==
    status = COMPLETE =>
        \A k \in 1..VideoChunks : k \in Ids(summaries) \/ k \in skipped

\* C5: a run with init=false that found PROCEEDING[c/t], c below the chunk
\* count, begins chunk work only for the orders c+1, c+2, ... in that order
\* (indexes c..total-1), all of them when it ends well, and once it works on
\* a chunk its prior summaries were seeded with the persisted summaries with
\* summary_id <= c.
C5_ResumeProcessesRest ==
    (/\ init = FALSE
     /\ outcome # "none"
     /\ resume_info.stage = "proceeding"
     /\ resume_info.current < total_chunks)
        => LET c == resume_info.current
           IN /\ \A j \in 1..Len(worked) : worked[j] = c + j
              /\ (outcome = "ok" => Len(worked) = total_chunks - c)
              /\ (worked # <<>> => seeded = PersistedTexts(c))

\* resumed at PROCEEDING[1/3] with summary 1 persisted, chunks 2 and 3 done
C5_Witness ==
    /\ init = FALSE
    /\ resume_info.stage = "proceeding"
    /\ resume_info.current = 1
    /\ total_chunks = 3
    /\ outcome = "ok"
    /\ worked = <<2, 3>>
    /\ Len(seeded) = 1

\* C6: in a run with init=true every persisted summary is one the run wrote
\* itself (the earlier ones are deleted), the status is PENDING when the run
\* enters the loading step, chunk work goes 1, 2, ... from the first chunk,
\* and the rolling context and the final-synthesis input hold only
\* summaries of this run.
C6_InitStartsFresh ==
    (init = TRUE /\ outcome # "none" /\ failed_step # "plan") =>
        /\ \A r \in summaries : r.summary_text.run = run
        /\ (pc = "enter" => status = PENDING)
        /\ \A j \in 1..Len(worked) : worked[j] = j
        /\ \A j \in 1..Len(previous_summaries) : previous_summaries[j].run = run
        /\ \A j \in 1..Len(video_summaries) : video_summaries[j].summary.run = run
        /\ \A j \in 1..Len(final_input.texts) : final_input.texts[j].run = run

\* an init=true run after a run that was cut in chunk 2, at final synthesis
C6_Witness ==
    /\ init = TRUE
    /\ resumed_after = 2
    /\ total_chunks = 2
    /\ final_input.called
    /\ Len(final_input.texts) = 2

\* C7: a run with init=false that found stage complete or organizing begins
\* no chunk work, and the input of its final synthesis is the persisted
\* summaries with summary_id <= total_chunks in ascending order.
C7_OrganizingResumeSkipsChunks ==
    (/\ init = FALSE
     /\ outcome # "none"
     /\ resume_info.stage \in {"organizing", "complete"})
        => /\ worked = <<>>
           /\ ~InLoopBody
           /\ (final_input.called => final_input.texts = PersistedTexts(total_chunks))

\* resumed at COMPLETE with two chunk summaries and the earlier final summary
C7_Witness ==
    /\ init = FALSE
    /\ resume_info.stage = "complete"
    /\ pc = "save_final"
    /\ total_chunks = 2
    /\ Ids(summaries) = {1, 2, 3}
    /\ Len(final_input.texts) = 2

\* C8: every status written has at most one FAILED_ in it, and a step that
\* leaves an already failed status failed leaves it unchanged.
C8_SingleFailedPrefix ==
    [][/\ Len(status') - Len(replace_empty(status', FAILED_)) <= Len(FAILED_)
       /\ (startswith(status, FAILED_) /\ startswith(status', FAILED_)
              => status' = status)]_vars

\* the handler ran on a status that was already failed
C8_Witness == refailed /\ outcome = "raised" /\ startswith(status, FAILED_)

\* C4: the start index is 0 with init=true; with init=false it is the chunk
\* count for complete and organizing, c for proceeding[c/t], 0 for pending
\* and for a status that is no stage.
C4_StartIndex ==
    fn_out.called =>
        fn_out.start =
            IF fn_in.is_init THEN 0
            ELSE IF fn_in.stage.stage \in {"complete", "organizing"}
                 THEN fn_in.total_chunks
            ELSE IF fn_in.stage.stage = "proceeding" THEN fn_in.stage.current
            ELSE 0

\* FAILED_PROCEEDING[2/3] with init=false and 3 chunks: start index 2
C4_Witness ==
    /\ fn_out.called
    /\ ~fn_in.is_init
    /\ fn_in.prefixed
    /\ fn_in.stage = [stage |-> "proceeding", current |-> 2, total |-> 3]
    /\ fn_in.total_chunks = 3
    /\ fn_out.start = 2

\* C9: decoding the status written for a stage gives that stage, and for
\* PROCEEDING[c/t] the same c and t; with FAILED_ in front the result is the
\* same descriptor.
C9_RoundTrip ==
    (fn_out.called /\ fn_in.stage # Unknown) =>
        /\ fn_out.plain_info.stage = fn_in.stage.stage
        /\ (fn_in.stage.stage = "proceeding" =>
               /\ fn_out.plain_info.current = fn_in.stage.current
               /\ fn_out.plain_info.total = fn_in.stage.total)
        /\ fn_out.info = fn_out.plain_info

\* FAILED_PROCEEDING[10/11] decoded
C9_Witness ==
    /\ fn_out.called
    /\ fn_in.prefixed
    /\ fn_in.stage = [stage |-> "proceeding", current |-> 10, total |-> 11]
    /\ fn_out.info = [stage |-> "proceeding", current |-> 10, total |-> 11]

RECURSIVE SumDurations(_)
SumDurations(chunks) ==
    IF chunks = <<>> THEN 0 ELSE Head(chunks).duration + SumDurations(Tail(chunks))

\* C10: for D > 0 and L > 0 the chunks start at 0, each starts where the one
\* before ends, all but the last last L, the last lasts D minus its start
\* and ends at D, the durations add up to D and the orders are 1..n.
C10_ChunksPartition ==
    (fn_out.called /\ fn_in.total_duration > 0) =>
        LET chunks == fn_out.chunks
            n == Len(chunks)
            D == fn_in.total_duration
            L == fn_in.segment_duration
        IN /\ n >= 1
           /\ chunks[1].start = 0
           /\ \A k \in 2..n : chunks[k].start = chunks[k - 1].end
           /\ \A k \in 1..n : chunks[k].end = chunks[k].start + chunks[k].duration
           /\ \A k \in 1..(n - 1) : chunks[k].duration = L
           /\ chunks[n].duration = D - chunks[n].start
           /\ chunks[n].duration > 0
           /\ chunks[n].end = D
           /\ SumDurations(chunks) = D
           /\ \A k \in 1..n : chunks[k].order = k

\* D = 7, L = 3: chunks of 3, 3 and 1
C10_Witness ==
    /\ fn_out.called
    /\ fn_in.total_duration = 7
    /\ fn_in.segment_duration = 3
    /\ Len(fn_out.chunks) = 3
    /\ fn_out.chunks[3].duration = 1

C12_RequestedSegmentLength ==
    (outcome # "none" /\ failed_step # "plan") =>
        \A k \in 1..(Len(chunks_info) - 1) : chunks_info[k].duration = req_segment_duration

\* C13: with the summaries of chunks 1..N pushed, N > 3, the context of the
\* chunk at index N has exactly the summaries of chunks N-2, N-1 and N, in
\* that order, labelled N-2, N-1 and N.
C13_WindowOfThree ==
    (/\ fn_out.called
     /\ fn_in.index > 3
     /\ fn_in.summarized = 1..fn_in.index)
        => LET N == fn_in.index
           IN /\ fn_out.context.header
              /\ fn_out.context.entries =
                    <<[label |-> N - 2, summary |-> [run |-> 1, chunk |-> N - 2]],
                      [label |-> N - 1, summary |-> [run |-> 1, chunk |-> N - 1]],
                      [label |-> N, summary |-> [run |-> 1, chunk |-> N]]>>

\* five summaries pushed, context of the chunk at index 5
C13_Witness ==
    /\ fn_out.called
    /\ fn_in.index = 5
    /\ fn_in.summarized = 1..5
    /\ Len(fn_out.context.entries) = 3
    /\ fn_out.context.entries[1].label = 3

\* C14: when a run that starts at the first chunk builds the prompt of a
\* chunk and every chunk before it was skipped (or there is none), the
\* prompt has no context fragment: no header and no entry.
C14_NoContextWithoutSummaries ==
    (pc = "save" /\ start_from = 0 /\ \A k \in 1..i : k \in skipped)
        => /\ previous_summaries = <<>>
           /\ context = NoContext

\* the prompt of chunk 2 after chunk 1 was skipped
C14_Witness ==
    /\ pc = "save"
    /\ start_from = 0
    /\ i = 1
    /\ skipped = {1}
    /\ context = NoContext

\* C15: when both analyses of a chunk returned, the chunk is skipped iff
\* both results are empty; a skip leaves the summary table, the rolling
\* window and the summary list as they were and moves to the next chunk; any
\* other chunk goes to summarization, and a summarized chunk is saved (or its
\* save reported as failed) and pushed into the rolling window.
C15_SkipIffBothEmpty ==
    [][/\ (pc = "analyze" /\ pc' \in {"loop", "summarize"}) =>
              IF utterances' = <<>> /\ scenes' = <<>>
              THEN /\ pc' = "loop"
                   /\ i' = i + 1
                   /\ (i + 1) \in skipped'
                   /\ summaries' = summaries
                   /\ previous_summaries' = previous_summaries
                   /\ video_summaries' = video_summaries
                   /\ summary' = summary
              ELSE /\ pc' = "summarize"
                   /\ i' = i
                   /\ skipped' = skipped
       /\ (pc = "summarize" /\ pc' = "save") => summary' = [run |-> run, chunk |-> i + 1]
       /\ (pc = "save" /\ pc' = "loop") =>
              /\ previous_summaries' = Append(previous_summaries, summary)
              /\ ((i + 1) \in Ids(summaries') \/ (i + 1) \in unsaved')]_vars

\* chunk 1 skipped, chunk 2 with scenes and no utterance summarized
C15_Witness ==
    /\ pc = "save"
    /\ i = 1
    /\ 1 \in skipped
    /\ utterances = <<>>
    /\ scenes # <<>>
    /\ summary = [run |-> run, chunk |-> 2]

\* C16: the extracted files of two chunks never exist together, and between
\* iterations and after a raised error no extracted file of the run exists.
C16_ChunkFileDeleted ==
    /\ Cardinality(chunk_files) <= 1
    /\ (pc = "loop" \/ (pc = "idle" /\ outcome = "raised")) => chunk_files = {}

\* C17: a row with a chunk's summary_id is written only by the save that
\* follows the summarization of that chunk in the same run, with the text
\* that summarization returned; a summarization that raises or is cut
\* leaves the table as it was.
C17_SavedAfterSummarized ==
    [][/\ \A r \in summaries' \ summaries :
              r.summary_id <= total_chunks =>
                  /\ pc = "save"
                  /\ summary = [run |-> run, chunk |-> r.summary_id]
                  /\ r.summary_text = summary
       /\ (pc = "summarize" /\ pc' = "idle") => summaries' = summaries]_vars

\* summary 2 of 3 saved by the run that summarized chunk 2
C17_Witness ==
    /\ pc = "loop"
    /\ i = 2
    /\ total_chunks = 3
    /\ \E r \in summaries : r.summary_id = 2 /\ r.summary_text = [run |-> run, chunk |-> 2]

\* C18: a run with init=true that is over, with no chunk skipped, no save
\* failed and no collaborator call raised (a response of the wrong number
\* of parts counts as one, unless the job has no prompt, for which no
\* response has the right number), has returned with status COMPLETE, the
\* summary ids 1..N+1 and one pair per custom prompt.
C18_FreshRunCompletes ==
    (/\ init = TRUE
     /\ pc = "idle"
     /\ outcome \in {"ok", "raised"}
     /\ failed_step = "none" \/ (failed_step = "parse" /\ custom_prompts = <<>>)
     /\ total_chunks >= 1
     /\ skipped = {}
     /\ unsaved = {})
        => /\ outcome = "ok"
           /\ status = COMPLETE
           /\ Ids(summaries) = 1..(total_chunks + 1)
           /\ Len(final_summary) = Len(custom_prompts)

C20_PairsInOrder ==
    (fn_out.called /\ ~fn_out.result.raised) =>
        LET m == Min(fn_in.prompts, PromptCap)
        IN /\ fn_out.result.requests = 1
           /\ fn_in.parts = m
           /\ fn_out.result.final_responses =
                  [k \in 1..m |-> <<k, <<AnswerLetters[k]>>>>]

\* twelve stored prompts, a response of ten parts
C20_Witness ==
    /\ fn_out.called
    /\ fn_in.prompts = 12
    /\ fn_in.parts = 10
    /\ ~fn_out.result.raised
    /\ Len(fn_out.result.final_responses) = 10

\* C21: when a run has written COMPLETE, the final summary is persisted
\* under summary_id total_chunks + 1.
C21_CompleteAfterFinalSaved ==
    (status = COMPLETE /\ pc = "return" /\ total_chunks >= 1) =>
        (total_chunks + 1) \in Ids(summaries)

Descending(blob, uris) ==
    \A k \in 1..(Len(uris) - 1) :
        Similarity(blob, uris[k]) >= Similarity(blob, uris[k + 1])

\* C22: with at least 3 resolved nominations the result has exactly 3
\* entries, all of them resolved nominations, in descending similarity.
C22_TopThreeOfNominated ==
    (fn_out.called /\ Len(fn_out.selected_uris_from_llm) >= TopCount) =>
        /\ Len(fn_out.result) = TopCount
        /\ SeqRange(fn_out.result) \subseteq SeqRange(fn_out.selected_uris_from_llm)
        /\ Descending(fn_in.blob, fn_out.result)

\* three distinct nominations resolve while the most similar scene of the
\* blob is not nominated
C22_Witness ==
    /\ fn_out.called
    /\ Cardinality(SeqRange(fn_out.selected_uris_from_llm)) >= TopCount
    /\ \E k \in 1..Len(fn_in.blob) :
          /\ fn_in.blob[k].uri \notin SeqRange(fn_out.selected_uris_from_llm)
          /\ \A j \in 1..Len(fn_in.blob) :
                fn_in.blob[j].similarity <= fn_in.blob[k].similarity

\* C23: with fewer than 3 resolved nominations the result is the resolved
\* nominations followed by the most similar other scenes, and its length is
\* min(3, number of scenes in the blob).
C23_FillFromOthers ==
    (fn_out.called /\ Len(fn_out.selected_uris_from_llm) < TopCount) =>
        LET n == Len(fn_out.selected_uris_from_llm)
            filled == SubSeq(fn_out.result, n + 1, Len(fn_out.result))
        IN  /\ SubSeq(fn_out.result, 1, n) = fn_out.selected_uris_from_llm
            /\ SeqRange(filled) \cap SeqRange(fn_out.selected_uris_from_llm) = {}
            /\ Descending(fn_in.blob, filled)
            /\ Len(fn_out.result) = Min(TopCount, Len(fn_in.blob))

\* C24: the nominations handed to retrieval are those of every processed
\* chunk of the job, the chunks reloaded from persistence by a resumed run
\* included.
C24_NominationsOfEveryChunk ==
    (pc = "save_final") =>
        final_input.selected_scene_strings =
            [k \in 1..Len(video_summaries) |->
                SceneToken(video_summaries[k].order, 1)]

\* C25: when the translation returns a number of items other than the number
\* of queries, the call raises (the run aborts) and the untranslated queries
\* are not what retrieval goes on with.
C25_TranslationMismatchAborts ==
    (fn_out.called
        /\ Len(SelectSeq(split_translation(fn_in.translated_text),
                         LAMBDA part : strip(part) # <<>>)) # Len(fn_in.text_list)) =>
        /\ fn_out.result.raised
        /\ fn_out.result.returned # fn_in.text_list

Malformed(req) ==
    \/ ~req.movie_id_given
    \/ Truthy(req.s3_folder_path) /\ Truthy(req.s3_video_uri)
    \/ ~Truthy(req.s3_folder_path) /\ ~Truthy(req.s3_video_uri)
    \/ Truthy(req.s3_video_uri) /\ ~startswith(req.s3_video_uri[1], S3Scheme)
    \/ Truthy(req.s3_folder_path) /\ ~startswith(req.s3_folder_path[1], S3Scheme)

\* C26: a malformed request is answered with a client error, not a server
\* error, and the processing function is not called.
C26_MalformedIsClientError ==
    (fn_out.called /\ Malformed(fn_in)) =>
        /\ fn_out.response.status_code \in 400..499
        /\ ~fn_out.response.processed

\* C27: a chunk save that fails writes nothing and returns False; the run
\* goes on to the next chunk with the status as it was, and the unsaved
\* summary is in the rolling context of the next chunk and in the input of
\* final synthesis.
C27_FailedSaveContinues ==
    [][/\ (pc = "save" /\ unsaved' # unsaved) =>
              /\ summaries' = summaries
              /\ status' = status
              /\ outcome' = "running"
              /\ pc' = "loop"
              /\ i' = i + 1
              /\ previous_summaries' = Append(previous_summaries, summary)
              /\ video_summaries'[Len(video_summaries')].summary = summary
       /\ (pc = "summarize" /\ pc' = "save" /\ i \in unsaved) =>
              \E k \in 1..Len(context'.entries) :
                  context'.entries[k].summary = [run |-> run, chunk |-> i]
       /\ (~final_input.called /\ final_input'.called) =>
              \A k \in unsaved :
                  k <= total_chunks =>
                      [run |-> run, chunk |-> k] \in SeqRange(final_input'.texts)]_vars

\* the save of chunk 1 failed, chunk 2 was summarized with summary 1 in its
\* context, and final synthesis was given both summaries
C27_Witness ==
    /\ pc = "save_final"
    /\ total_chunks = 2
    /\ 1 \in unsaved
    /\ ~(\E r \in summaries : r.summary_id = 1)
    /\ Len(final_input.texts) = 2
    /\ final_input.texts[1] = [run |-> run, chunk |-> 1]
    /\ \E k \in 1..Len(context.entries) :
          context.entries[k].summary = [run |-> run, chunk |-> 1]

\* C28: the two analyses of a chunk are started together, before the run
\* waits for either, and the skip decision, the summarization, the save and
\* the push of the chunk happen only when both have returned.
C28_BothAwaited ==
    [][/\ (transcribe_task' = "running" /\ transcribe_task # "running") =>
              scene_task' = "running"
       /\ (scene_task' = "running" /\ scene_task # "running") =>
              transcribe_task' = "running"
       /\ pc = "analyze" => (transcribe_task # "none" /\ scene_task # "none")
       /\ (pc = "analyze" /\ pc' \in {"loop", "summarize"}) =>
              (transcribe_task = "returned" /\ scene_task = "returned")
       /\ pc \in {"summarize", "save"} =>
              (transcribe_task = "returned" /\ scene_task = "returned")
       /\ (InLoopBody /\ (skipped' # skipped \/ summary' # summary
                            \/ previous_summaries' # previous_summaries
                            \/ (pc = "save" /\ summaries' # summaries))) =>
              (transcribe_task = "returned" /\ scene_task = "returned")]_vars

\* the run waits at the gather of chunk 2 with the scene detection returned
\* and the transcription still running
C28_Witness ==
    /\ pc = "analyze"
    /\ i = 1
    /\ scene_task = "returned"
    /\ transcribe_task = "running"

\* the status writes of a run, in order: PROCEEDING[start_from/N] on entry,
\* then the current value one higher per chunk up to N, ORGANIZING after
\* the loop and before final synthesis is called, COMPLETE after ORGANIZING
StatusSequence ==
    /\ (status' # status /\ pc # "idle" /\ ~startswith(status', FAILED_)) =>
          \/ pc = "init_pending" /\ status' = PENDING
          \/ /\ pc = "enter"
             /\ get_resume_info(status').stage = "proceeding"
             /\ get_resume_info(status').current = start_from
             /\ get_resume_info(status').total = total_chunks
          \/ /\ pc = "loop"
             /\ get_resume_info(status).stage = "proceeding"
             /\ get_resume_info(status').stage = "proceeding"
             /\ get_resume_info(status').current = get_resume_info(status).current + 1
             /\ get_resume_info(status').current <= total_chunks
             /\ get_resume_info(status').total = total_chunks
          \/ /\ pc = "loop"
             /\ status' = ORGANIZING
             /\ \/ status = ProceedingStatus(total_chunks, total_chunks)
                \/ start_from >= total_chunks
          \/ status' = COMPLETE /\ status = ORGANIZING
    /\ (pc = "loop" /\ pc' = "extract") =>
          get_resume_info(status').current = i + 1
    /\ (~final_input.called /\ final_input'.called) => status = ORGANIZING

\* C29 (as stated): the status sequence of a run, and the work of chunk
\* k+1 starts only when chunk k of the run was persisted or skipped.
C29_NextChunkAfterPersisted ==
    [][/\ StatusSequence
       /\ (pc = "loop" /\ pc' = "extract" /\ i \in SeqRange(worked)) =>
              i \in Ids(summaries) \cup skipped]_vars

\* C29 (amended): the status sequence of a run, and the work of chunk k+1
\* starts only when the iteration of chunk k of the run is over: its save
\* returned, with True or False, or the chunk was skipped.
C29_NextChunkAfterIteration ==
    [][/\ StatusSequence
       /\ (pc = "loop" /\ pc' = "extract" /\ i \in SeqRange(worked)) =>
              /\ i \in Ids(summaries) \cup skipped \cup unsaved
              /\ i \in skipped \/ video_summaries[Len(video_summaries)].order = i]_vars

\* chunk 3 of 3 begins after chunk 1 was skipped and chunk 2 saved, with
\* the status going from PROCEEDING[2/3] to PROCEEDING[3/3]
C29_Witness ==
    /\ pc = "extract"
    /\ total_chunks = 3
    /\ worked = <<1, 2, 3>>
    /\ status = ProceedingStatus(3, 3)
    /\ 1 \in skipped
    /\ 2 \in Ids(summaries)

\* C30: a write of the blob stores the previous content overridden by the
\* new entries: no earlier entry is lost, and for a key in both the new
\* vector is stored.
C30_MergeKeepsEarlier ==
    fn_out.called =>
        /\ \A k \in 1..Len(fn_in.existing_data) :
              fn_in.existing_data[k].uri \in Keys(fn_out.stored)
        /\ \A k \in 1..Len(fn_out.stored) :
              LET entry == fn_out.stored[k]
              IN  IF entry.uri \in Keys(fn_in.dict_data) THEN entry.vector = "new"
                  ELSE entry.vector = "old"

Ceil(a, b) == (a + b - 1) \div b

\* C31: every PROCEEDING[c/t] a run writes has 0 <= c <= t, and t is the
\* number of chunks the planner produced for the video, ceil(D/L) for the
\* duration D and the segment length L the planner worked with.
C31_ProceedingInRange ==
    [][(status' # status /\ ~startswith(status', FAILED_)
            /\ get_resume_info(status').stage = "proceeding") =>
           LET written == get_resume_info(status')
           IN  /\ status' = ProceedingStatus(written.current, written.total)
               /\ 0 <= written.current
               /\ written.current <= written.total
               /\ written.total = Len(chunks_info)
               /\ written.total = Ceil(video_duration, SegmentDefault)]_vars

\* the last of three chunks of a 1500 s video begins
C31_Witness ==
    /\ pc = "extract"
    /\ video_duration = 1500
    /\ status = ProceedingStatus(3, 3)
    /\ chunks_info[3].duration = 300

\* the lines of query idx between the first opening tag of the response that
\* is closed and its closing tag
LinesInBlock(response, idx) ==
    SelectSeq(SubSeq(response, BlockOpen(response, 1) + 1, BlockClose(response, 1) - 1),
              LAMBDA token : token.kind = "line" /\ token.idx = idx)

C33_DialogueOverlapsScene ==
    fn_out.called =>
        fn_out.dialogue =
            SelectSeq(fn_in.utterances,
                      LAMBDA utt : /\ utt.start_time < fn_in.scene.end_time
                                   /\ utt.end_time > fn_in.scene.start_time)

\* C34: in the context rendered for a chunk, the label of every retained
\* summary is the 1-based order of the chunk that produced it, also when
\* earlier chunks were skipped.
C34_LabelIsChunkOrder ==
    fn_out.called =>
        \A k \in 1..Len(fn_out.context.entries) :
            fn_out.context.entries[k].label = fn_out.context.entries[k].summary.chunk

\* C35: while one of the two calls of a chunk is still running on the
\* chunk's extracted file, the file exists and the run has not taken its
\* failure transition: it is still waiting at the gather.
C35_NoCleanupWhileRunning ==
    (transcribe_task = "running" \/ scene_task = "running") =>
        /\ pc = "analyze"
        /\ (i + 1) \in chunk_files
        /\ outcome = "running"


\* C36: a run with init=false never deletes a persisted summary, never
\* rewrites one whose summary_id is at most the index it resumed from, and
\* writes only under summary ids start_from+1 .. total_chunks+1.
C36_ResumeWritesAfterStart ==
    [][(pc # "idle" /\ init = FALSE) =>
        /\ \A r \in summaries : \E q \in summaries' : q.summary_id = r.summary_id
        /\ \A r \in summaries : r.summary_id <= start_from => r \in summaries'
        /\ \A q \in summaries' \ summaries :
               q.summary_id \in (start_from + 1)..(total_chunks + 1)]_vars

C36_Witness ==
    /\ init = FALSE
    /\ start_from > 0
    /\ pc = "return"
    /\ \E r \in summaries : r.summary_id <= start_from /\ r.summary_text.run < run
    /\ \E r \in summaries : r.summary_id = start_from + 1 /\ r.summary_text.run = run
    /\ \E r \in summaries : r.summary_id = total_chunks + 1 /\ r.summary_text.run = run


\* C37: the scene list returned for a retrieval query never holds the same
\* scene reference twice, whatever the model nominated.
C37_NoSceneTwice ==
    fn_out.called =>
        \A j, k \in 1..Len(fn_out.result) :
            fn_out.result[j] = fn_out.result[k] => j = k

\* the embedding key of the scene a token names
KeyOfToken(scene_str) == <<"s", "3", "/">> \o scene_str \o <<".", "j", "p", "g">>

\* C38: every key a nominated token resolves to is the key of the scene the
\* token names, and a token whose scene has no entry in the blob resolves to
\* nothing: the resolved keys are the keys of the nominated scenes the blob
\* holds, in the order of the nominations.
C38_TokenResolvesToItsScene ==
    fn_out.called =>
        fn_out.selected_uris_from_llm =
            SelectSeq([k \in 1..Len(fn_in.selected_scene_strings) |->
                           KeyOfToken(fn_in.selected_scene_strings[k])],
                      LAMBDA uri : uri \in SeqRange(UriList(fn_in.blob)))


\* C39: for a job with no custom prompts, once create_final_results has
\* been called on the summaries of all chunks, the pair list is empty and the
\* run has not failed: it goes on to COMPLETE.
C39_NoPromptsCompletes ==
    (stored_prompts = <<>> /\ final_input.called) =>
        /\ final_summary = <<>>
        /\ outcome # "raised"
        /\ pc \in {"save_final", "complete", "return", "idle"}
        /\ pc = "idle" => status = COMPLETE


\* the positions of a run after its COMPLETE write, in either mode
AfterCompleteWrite == pc \in {"return", "folder_parse"}

\* C40: once a run has written COMPLETE it changes the status no more, and
\* when it ends (unless the process is killed) it has returned successfully:
\* it never leaves FAILED_COMPLETE behind.
C40_CompleteIsFinal ==
    [][AfterCompleteWrite =>
        /\ status' = COMPLETE
        /\ pc' = "idle" => outcome' \in {"ok", "killed"}]_vars
====
